---------------------------- MODULE Spec2Model ----------------------------
(***************************************************************************)
(* A model of the memory-aware agent core of the LMQA backend:             *)
(*   - AgentService.chat_agent      (backend/app/services/agent_service.py)*)
(*   - AgentService._execute_tool   (the delete_memory tool)               *)
(*   - MemoryManager                (backend/memory/manager.py)            *)
(*   - the conversation endpoints   (backend/app/api/chat.py)              *)
(*   - the model config endpoints   (backend/app/api/models.py)            *)
(* Each part has its own specification over the same variables; the        *)
(* variables of the other parts stay at their initial values.              *)
(*   Spec            the agent loop of chat_agent                          *)
(*   FairSpec        the agent loop with every call returning or raising   *)
(*   DeleteSpec      one run of the delete_memory tool                     *)
(*   ScopeSpec       scope resolution of add_memory / search_memories      *)
(*   ManagerSpec     the adapter cache under concurrent manager calls      *)
(*   ManagerSeqSpec  the adapter cache under the calls of a single thread  *)
(*   StreamSpec      the generator of the streaming endpoint               *)
(*   StreamRaceSpec  the generator next to another send on the conversation *)
(*   ChatSpec        concurrent requests on the conversation endpoints     *)
(*   CrudSpec        record operations of the MemoryManager                *)
(*   ModelsSpec      the model config endpoints                            *)
(*   AccessSpec      the ownership checks of the user-scoped endpoints     *)
(***************************************************************************)
EXTENDS Integers, Sequences, FiniteSets, TLC

VARIABLES
    \* ---- chat_agent (agent_service.py:324-353)
    pc,              \* position in chat_agent: start | loop | join | done
    messages,        \* the local list `messages`
    current_turn,    \* the local `current_turn`
    llm_calls,       \* number of client.chat.completions.create calls made
    futures,         \* state of each submitted future, in submission order
    completed,       \* indices of the futures in the order they finished
    joined,          \* number of futures whose result() has been appended
    result,          \* the value chat_agent returned ("none" while running)
    tool_name,       \* tool_call.function.name of the tool calls of this run
    tool_arguments,  \* tool_call.function.arguments of the tool calls (text)
    memory,          \* how the memory module answers in this run
    \* ---- _execute_tool, delete_memory branch (agent_service.py:189-291)
    dpc,             \* position in the tool run
    user_id,         \* the caller's user id (an integer database id)
    conversation_id, \* the conversation the tool was called from
    store,           \* vector records of the memory store: [id, ns, text, type]
    relations,       \* graph relations of the memory store: [ns, rel]
    candidates,      \* the local list `candidates`
    ids_to_delete,   \* the local list `ids_to_delete`
    del_idx,         \* number of ids of ids_to_delete already walked
    deleted_contents,\* the local list `deleted_contents`
    neutral_statement, \* the local `neutral_statement`
    reset_started,   \* whether the graph-reset block (line 245) was entered
    tool_result,     \* the kind of string the tool returned
    \* ---- MemoryManager scope resolution (manager.py:78-120)
    adapter_calls,   \* the add / search calls that reached the adapter
    value_error,     \* whether the last manager call raised ValueError
    \* ---- MemoryManager adapter cache (manager.py:14-108)
    clients,         \* the class attribute `_clients`: hash -> adapter (0: none)
    built,           \* number of adapters Memory.from_config has returned
    evictions,       \* number of entries deleted from `_clients`
    started,         \* number of manager calls started
    uses,            \* the llm_settings dict object each thread passes
    llm_settings,    \* the content of each llm_settings dict object
    thr,             \* each thread's position and locals in its manager call
    \* ---- send_message_stream.generate (api/chat.py:228-275)
    spc,             \* position of the generator
    table,           \* the rows of the conversation in `messages`, oldest first
    message_count,   \* conversations.message_count of the conversation
    events,          \* the events the generator has yielded
    connected,       \* whether the client still reads the response
    user_message_id, \* the local `user_message_id` (0: not set)
    history,         \* the local `history`
    final_content,   \* the local `final_content`
    offset,          \* the loop variable `i` of the token loop
    failed,          \* whether the except clause (line 273) was entered
    \* ---- the conversation endpoints (api/chat.py:87-133, 158-342)
    conversations,   \* the rows of `conversations`, by id
    messages_table,  \* the rows of `messages`, in insertion order
    next_message_id, \* the next AUTOINCREMENT id of `messages`
    foreign_keys,    \* whether the SQLite build enforces foreign keys
    local_memories,  \* records in the namespace user_conv_<id>, by conversation
    reqs,            \* each request's position and locals in its handler
    exchanges,       \* history: exchanges stored so far, by conversation
    manual_deletes,  \* history: messages deleted by delete_message
    \* ---- MemoryManager record operations (manager.py:86-153)
    vectors,         \* the records of the adapter's vector store
    next_vector_id,  \* number of the next record id the adapter hands out
    last_call,       \* the last manager call and what it returned
    \* ---- model configs (api/models.py:70-271)
    user_model_configs, \* the rows of `user_model_configs`
    next_config_id,  \* the next AUTOINCREMENT id of `user_model_configs`
    response,        \* the request last handled and its answer
    \* ---- ownership checks (api/chat.py:135-342, api/memories.py:14-270)
    owned,           \* the rows of `conversations` with their user_id, by id
    message_rows,    \* the rows of `messages`, in insertion order
    next_row_id,     \* the next AUTOINCREMENT id of `messages`
    memory_rows,     \* the rows of `memories`, in insertion order
    last_answer      \* the request last handled, its answer and its reads

agentVars == <<pc, messages, current_turn, llm_calls, futures, completed,
               joined, result, tool_name, tool_arguments, memory>>

deleteVars == <<dpc, user_id, conversation_id, store, relations, candidates,
                ids_to_delete, del_idx, deleted_contents, neutral_statement,
                reset_started, tool_result>>

scopeVars == <<adapter_calls, value_error>>

managerVars == <<clients, built, evictions, started, uses, llm_settings, thr>>

streamVars == <<spc, table, message_count, events, connected, user_message_id,
                history, final_content, offset, failed>>

chatVars == <<conversations, messages_table, next_message_id, foreign_keys,
              local_memories, reqs, exchanges, manual_deletes>>

crudVars == <<vectors, next_vector_id, last_call>>

modelsVars == <<user_model_configs, next_config_id, response>>

accessVars == <<owned, message_rows, next_row_id, memory_rows, last_answer>>

vars == <<agentVars, deleteVars, scopeVars, managerVars, streamVars, chatVars,
          crudVars, modelsVars, accessVars>>

\* What the actions of one part leave unchanged.
notAgentVars == <<deleteVars, scopeVars, managerVars, streamVars,
                  chatVars, crudVars, modelsVars,
                  accessVars>>

notDeleteVars == <<agentVars, scopeVars, managerVars, streamVars,
                  chatVars, crudVars, modelsVars,
                  accessVars>>

notScopeVars == <<agentVars, deleteVars, managerVars, streamVars,
                  chatVars, crudVars, modelsVars,
                  accessVars>>

notManagerVars == <<agentVars, deleteVars, scopeVars, streamVars,
                  chatVars, crudVars, modelsVars,
                  accessVars>>

notStreamVars == <<agentVars, deleteVars, scopeVars, managerVars,
                  chatVars, crudVars, modelsVars,
                  accessVars>>

notChatVars == <<agentVars, deleteVars, scopeVars, managerVars, streamVars,
                 crudVars, modelsVars,
                  accessVars>>

notCrudVars == <<agentVars, deleteVars, scopeVars, managerVars, streamVars,
                 chatVars, modelsVars,
                  accessVars>>

notModelsVars == <<agentVars, deleteVars, scopeVars, managerVars, streamVars,
                   chatVars, crudVars,
                  accessVars>>

notAccessVars == <<agentVars, deleteVars, scopeVars, managerVars, streamVars,
                   chatVars, crudVars, modelsVars>>

-----------------------------------------------------------------------------
(* Bounds of the model.                                                    *)

\* Largest number of tool calls the LLM puts in one response.
MaxToolCalls == 2

\* Largest number of history messages handed to chat_agent.
MaxHistory == 1

-----------------------------------------------------------------------------
(* chat_agent                                                              *)

\* agent_service.py:331  max_turns = 5
max_turns == 5

\* The strings chat_agent returns (agent_service.py:326, 352, 353).
\* They stand for "qing xian pei zhi mo xing API Key." (configure a model
\* first), "chu li cuo wu: {msg}" (processing error) and "si kao chao shi."
\* (thinking timed out).
NoModelReply == "configure-model"
ErrorReply == "processing-error"
TimeoutReply == "thinking-timeout"

\* The contents an LLM answer without tool calls may carry; the empty string
\* stands for an empty or missing content.
Contents == {"answer", ""}

NoId == <<0, 0>>

SystemMsg ==
    [role |-> "system", tool_calls |-> <<>>, tool_call_id |-> NoId, content |-> ""]
UserMsg ==
    [role |-> "user", tool_calls |-> <<>>, tool_call_id |-> NoId, content |-> ""]
HistoryMsg ==
    [role |-> "history", tool_calls |-> <<>>, tool_call_id |-> NoId, content |-> ""]

\* The tool calls of the response to LLM call k: n calls with distinct ids.
ToolCallsOf(k, n) == [i \in 1..n |-> <<k, i>>]

AssistantMsg(calls) ==
    [role |-> "assistant", tool_calls |-> calls, tool_call_id |-> NoId,
     content |-> ""]

\* {"tool_call_id": tool_call.id, "role": "tool", "content": tool_result}
ToolMsg(id, text) ==
    [role |-> "tool", tool_calls |-> <<>>, tool_call_id |-> id,
     content |-> text]

\* ---- _execute_tool as chat_agent sees it (agent_service.py:161-321)

\* agent_service.py:71-135  the names of the five tools of _get_tools.
AdvertisedTools ==
    {"add_local_memory", "add_global_memory", "search_local_memories",
     "search_global_memories", "delete_memory"}

\* The tool names the LLM may put in a tool call: the five tools of
\* _get_tools and names that are none of them.
ToolNames == AdvertisedTools \cup {"no_such_tool", "add_memory"}

\* The parts of a tool name between its underscores.
Words(name) ==
    CASE name = "add_local_memory" -> {"add", "local", "memory"}
      [] name = "add_global_memory" -> {"add", "global", "memory"}
      [] name = "search_local_memories" -> {"search", "local", "memories"}
      [] name = "search_global_memories" -> {"search", "global", "memories"}
      [] name = "delete_memory" -> {"delete", "memory"}
      [] name = "add_memory" -> {"add", "memory"}
      [] OTHER -> {"no", "such", "tool"}

\* `word in tool_name` (lines 294, 298, 302) for the words above: the
\* substring test finds a word in a name exactly if it is one of its parts.
Contains(word, name) == word \in Words(name)

\* The arguments texts the LLM may put in a tool call: objects with and
\* without the key the tool reads, a text that is not JSON, and a JSON text
\* that is not an object.
ArgumentTexts ==
    {"{\"content\": \"x\"}", "{\"query\": \"x\"}", "{}", "{\"content\": ", "[]"}

\* A parsed arguments value: whether it is a dict, and its keys.
EmptyObject == [is_dict |-> TRUE, keys |-> {}]

\* json.loads(text): the parsed value, or raised.
JsonLoads(text) ==
    CASE text = "{\"content\": \"x\"}" ->
            [raised |-> FALSE, value |-> [is_dict |-> TRUE, keys |-> {"content"}]]
      [] text = "{\"query\": \"x\"}" ->
            [raised |-> FALSE, value |-> [is_dict |-> TRUE, keys |-> {"query"}]]
      [] text = "{}" ->
            [raised |-> FALSE, value |-> EmptyObject]
      [] text = "[]" ->
            [raised |-> FALSE, value |-> [is_dict |-> FALSE, keys |-> {}]]
      [] OTHER ->
            [raised |-> TRUE, value |-> EmptyObject]

\* agent_service.py:343-344
\*   try: arguments = json.loads(tool_call.function.arguments)
\*   except: arguments = {}
ArgumentsKeepRaw(text) ==
    IF JsonLoads(text).raised
    THEN [is_dict |-> FALSE, keys |-> {}]
    ELSE JsonLoads(text).value

Arguments(text) ==
    IF JsonLoads(text).raised THEN EmptyObject ELSE JsonLoads(text).value

\* tool_args[key]: "ok", or the exception the lookup raises.
Lookup(args, key) ==
    IF ~args.is_dict THEN "TypeError"
    ELSE IF key \notin args.keys THEN "KeyError"
    ELSE "ok"

\* How the memory module answers in a run: it works, its operations raise, or
\* it was never initialised (self.memory_manager is None, line 38).
MemoryStates == {"ok", "raises", "missing"}

\* The kinds of string the tool returns (agent_service.py:163, 211, 291, 300,
\* 313, 317, 321).
NoMatchResult == "no-match"
SuccessResult == "deleted-and-graph-synchronized"
ToolErrorResult == "tool-error"
NotInitialisedResult == "memory-module-not-initialised"
UnknownToolResult == "unknown-tool"

AddedResult(scope) == scope \o "-memory-added"

SearchResult(scope) == scope \o "-search-result"

\* return f"tool error: {str(e)}" (line 321)
ToolError(e) == ToolErrorResult \o ": " \o e

\* What future.result() gives when the tool execution raised.
Raised == "<raised>"

\* 'local' in tool_name (line 294)
ScopeOf(name) == IF Contains("local", name) THEN "local" ELSE "global"

\* "add" in tool_name (line 298) and "search" in tool_name (line 302)
AddTools == {name \in ToolNames : Contains("add", name)}

SearchTools == {name \in ToolNames : Contains("search", name)}

\* The body of the try block (lines 166-317): the string it returns, or the
\* exception it raises.
ToolBody(name, args, mem) ==
    IF name = "delete_memory"
    THEN IF Lookup(args, "content") # "ok"
         THEN [raised |-> TRUE, value |-> Lookup(args, "content")]
         ELSE IF mem = "raises" THEN [raised |-> TRUE, value |-> "memory"]
         ELSE [raised |-> FALSE, value |-> SuccessResult]
    ELSE IF name \in AddTools
    THEN IF Lookup(args, "content") # "ok"
         THEN [raised |-> TRUE, value |-> Lookup(args, "content")]
         ELSE IF mem = "raises" THEN [raised |-> TRUE, value |-> "memory"]
         ELSE [raised |-> FALSE, value |-> AddedResult(ScopeOf(name))]
    ELSE IF name \in SearchTools
    THEN IF Lookup(args, "query") # "ok"
         THEN [raised |-> TRUE, value |-> Lookup(args, "query")]
         ELSE IF mem = "raises" THEN [raised |-> TRUE, value |-> "memory"]
         ELSE [raised |-> FALSE, value |-> SearchResult(ScopeOf(name))]
    ELSE [raised |-> FALSE, value |-> UnknownToolResult]

\* _execute_tool: the memory module test of line 163, then the try block with
\* its except Exception (lines 319-321).
ExecuteToolUnguarded(name, args, mem) ==
    IF mem = "missing" THEN NotInitialisedResult
    ELSE IF ToolBody(name, args, mem).raised THEN Raised
    ELSE ToolBody(name, args, mem).value

ExecuteTool(name, args, mem) ==
    IF mem = "missing" THEN NotInitialisedResult
    ELSE IF ToolBody(name, args, mem).raised
         THEN ToolError(ToolBody(name, args, mem).value)
    ELSE ToolBody(name, args, mem).value

\* except Exception as e: return "processing error" (line 352)
ExceptKeepsLooping == [pc |-> "loop", result |-> ErrorReply]

ExceptReturn == [pc |-> "done", result |-> ErrorReply]

\* while current_turn < max_turns
LoopGuardOffByOne(turn) == turn <= max_turns

LoopGuard(turn) == turn < max_turns

\* The future whose result the join loop appends next: the futures list is
\* walked in submission order (for tool_call, future in futures).
JoinIndexAsCompleted(js, comp) == IF Len(comp) > js THEN comp[js + 1] ELSE js + 1

JoinIndex(js, comp) == js + 1

\* chat_agent has not been called.
AgentIdle ==
    /\ pc = "start"
    /\ messages = <<>>
    /\ current_turn = 0
    /\ llm_calls = 0
    /\ futures = <<>>
    /\ completed = <<>>
    /\ joined = 0
    /\ result = "none"
    /\ tool_name = "search_global_memories"
    /\ tool_arguments = "{\"query\": \"x\"}"
    /\ memory = "ok"

\* chat_agent is called; the tool calls the LLM emits in the run carry one
\* name and one arguments text. Without a memory module the tool returns
\* before it looks at either (line 163), so one tool call stands for all.
AgentInit ==
    /\ pc = "start"
    /\ messages = <<>>
    /\ current_turn = 0
    /\ llm_calls = 0
    /\ futures = <<>>
    /\ completed = <<>>
    /\ joined = 0
    /\ result = "none"
    /\ memory \in MemoryStates
    /\ tool_name \in IF memory = "missing" THEN {"add_global_memory"} ELSE ToolNames
    /\ tool_arguments \in
          IF memory = "missing" THEN {"{\"content\": \"x\"}"} ELSE ArgumentTexts

\* _get_llm_client found no usable model config: return at once.
NoClient ==
    /\ pc = "start"
    /\ pc' = "done"
    /\ result' = NoModelReply
    /\ UNCHANGED <<messages, current_turn, llm_calls, futures, completed, joined,
                   tool_name, tool_arguments, memory, notAgentVars>>

\* messages = [system] + history_messages + [user]
Assemble ==
    /\ pc = "start"
    /\ \E h \in 0..MaxHistory :
          messages' = <<SystemMsg>> \o [i \in 1..h |-> HistoryMsg] \o <<UserMsg>>
    /\ pc' = "loop"
    /\ UNCHANGED <<current_turn, llm_calls, futures, completed, joined, result,
                   tool_name, tool_arguments, memory, notAgentVars>>

\* The LLM call raises: except Exception as e: return "processing error".
LLMRaises ==
    /\ pc = "loop"
    /\ LoopGuard(current_turn)
    /\ llm_calls' = llm_calls + 1
    /\ result' = ExceptReturn.result
    /\ pc' = ExceptReturn.pc
    /\ UNCHANGED <<messages, current_turn, futures, completed, joined,
                   tool_name, tool_arguments, memory, notAgentVars>>

\* The LLM answers without tool calls: return response_message.content.
LLMAnswers ==
    /\ pc = "loop"
    /\ LoopGuard(current_turn)
    /\ llm_calls' = llm_calls + 1
    /\ \E c \in Contents : result' = c
    /\ pc' = "done"
    /\ UNCHANGED <<messages, current_turn, futures, completed, joined,
                   tool_name, tool_arguments, memory, notAgentVars>>

\* The LLM answers with n tool calls: the response is appended and every call
\* is submitted to the executor.
LLMToolCalls ==
    /\ pc = "loop"
    /\ LoopGuard(current_turn)
    /\ llm_calls' = llm_calls + 1
    /\ \E n \in 1..MaxToolCalls :
          /\ messages' = Append(messages, AssistantMsg(ToolCallsOf(llm_calls + 1, n)))
          /\ futures' = [i \in 1..n |-> "running"]
    /\ completed' = <<>>
    /\ joined' = 0
    /\ pc' = "join"
    /\ UNCHANGED <<current_turn, result,
                   tool_name, tool_arguments, memory, notAgentVars>>

\* A worker thread finishes _execute_tool for future i, called with the
\* arguments parsed at lines 343-344; the future holds what it returned.
ToolFinishes ==
    /\ pc = "join"
    /\ \E i \in 1..Len(futures) :
          /\ futures[i] = "running"
          /\ futures' = [futures EXCEPT ![i] =
                  ExecuteTool(tool_name, Arguments(tool_arguments), memory)]
          /\ completed' = Append(completed, i)
    /\ UNCHANGED <<pc, messages, current_turn, llm_calls, joined, result,
                   tool_name, tool_arguments, memory, notAgentVars>>

\* future.result() (line 348) blocks until the tool execution has finished.
ResultReadyAtOnce(f) == TRUE

ResultReadyNever(f) == FALSE

ResultReady(f) == f # "running"

\* tool_result = future.result(); messages.append({tool_call_id: ...}).
\* future.result() raises what the tool execution raised, which the except
\* of line 352 turns into the return of the error string once the with
\* block of line 339 is left: the executor's __exit__ waits for every
\* submitted execution.
JoinNext ==
    /\ pc = "join"
    /\ joined < Len(futures)
    /\ LET i == JoinIndex(joined, completed)
           call == messages[Len(messages) - joined].tool_calls
       IN  /\ ResultReady(futures[i])
           /\ IF futures[i] = Raised
              THEN /\ \A j \in DOMAIN futures : futures[j] # "running"
                   /\ result' = ExceptReturn.result
                   /\ pc' = ExceptReturn.pc
                   /\ UNCHANGED <<messages, joined>>
              ELSE /\ messages' = Append(messages, ToolMsg(call[i], futures[i]))
                   /\ joined' = joined + 1
                   /\ UNCHANGED <<pc, result>>
    /\ UNCHANGED <<current_turn, llm_calls, futures, completed,
                   tool_name, tool_arguments, memory, notAgentVars>>

\* The with-block of the executor is left; current_turn += 1.
TurnEnds ==
    /\ pc = "join"
    /\ joined = Len(futures)
    /\ current_turn' = current_turn + 1
    /\ futures' = <<>>
    /\ completed' = <<>>
    /\ joined' = 0
    /\ pc' = "loop"
    /\ UNCHANGED <<messages, llm_calls, result,
                   tool_name, tool_arguments, memory, notAgentVars>>

\* The while loop ends by exhaustion: return "thinking timed out".
TimesOut ==
    /\ pc = "loop"
    /\ ~LoopGuard(current_turn)
    /\ result' = TimeoutReply
    /\ pc' = "done"
    /\ UNCHANGED <<messages, current_turn, llm_calls, futures, completed, joined,
                   tool_name, tool_arguments, memory, notAgentVars>>

-----------------------------------------------------------------------------
(* MemoryManager: scope resolution                                         *)

\* Python's None. No id or text of the model is this string.
None == "<None>"

\* Truthiness of an optional string: None and "" are falsy.
Truthy(s) == s # None /\ s # ""

\* str(n) of a database id.
Str(n) == ToString(n)

\* manager.py:78-83  _resolve_ids: (target_user_id, target_run_id), or
\* ValueError for a local scope without run_id.
ResolveIdsPassRun(uid, rid, scope) ==
    IF scope = "local"
    THEN IF ~Truthy(rid)
         THEN [raised |-> TRUE, target_user_id |-> None, target_run_id |-> None]
         ELSE [raised |-> FALSE, target_user_id |-> uid, target_run_id |-> rid]
    ELSE [raised |-> FALSE, target_user_id |-> uid, target_run_id |-> None]

ResolveIdsDropUser(uid, rid, scope) ==
    IF scope = "local"
    THEN IF ~Truthy(rid)
         THEN [raised |-> TRUE, target_user_id |-> None, target_run_id |-> None]
         ELSE [raised |-> FALSE, target_user_id |-> "conv_" \o rid,
               target_run_id |-> None]
    ELSE [raised |-> FALSE, target_user_id |-> uid, target_run_id |-> None]

ResolveIds(uid, rid, scope) ==
    IF scope = "local"
    THEN IF ~Truthy(rid)
         THEN [raised |-> TRUE, target_user_id |-> None, target_run_id |-> None]
         ELSE [raised |-> FALSE, target_user_id |-> uid \o "_conv_" \o rid,
               target_run_id |-> None]
    ELSE [raised |-> FALSE, target_user_id |-> uid, target_run_id |-> None]

\* manager.py:89-90 and 113-114: params = {"user_id": target_user_id}, and
\* params["run_id"] only for a truthy target_run_id.
AdapterParams(r) ==
    [user_id |-> r.target_user_id,
     has_run_id |-> Truthy(r.target_run_id),
     run_id |-> r.target_run_id]

\* Largest database id (users and conversations are numbered from 1).
MaxId == 2

\* The ids the application passes: str() of a database id
\* (agent_service.py:195, 299; api/memories.py:20).
DbIds == {Str(n) : n \in 1..MaxId}

\* Other strings the manager accepts as ids: _resolve_ids puts no condition
\* on the text of user_id or run_id.
CraftedIds == {u \o "_conv_" \o Str(1) : u \in DbIds}

UserIdInputs == DbIds \cup CraftedIds

RunIdInputs == DbIds \cup CraftedIds \cup {None, ""}

Scopes == {"local", "global"}

\* Largest number of adapter calls kept in the log of ScopeSpec.
MaxAdapterCalls == 2

ScopeIdle ==
    /\ adapter_calls = {}
    /\ value_error = FALSE

ScopeInit == ScopeIdle

\* What a manager call with these arguments hands to the adapter.
AdapterCall(op, uid, rid, scope) ==
    [op |-> op, user_id |-> uid, run_id |-> rid, scope |-> scope,
     params |-> AdapterParams(ResolveIds(uid, rid, scope))]

\* manager.py:86-108  add_memory (the adapter's add succeeds or raises; the
\* recovery of a raising add is modelled in ManagerSpec).
add_memory ==
    /\ Cardinality(adapter_calls) < MaxAdapterCalls
    /\ \E uid \in UserIdInputs, rid \in RunIdInputs, scope \in Scopes :
          IF ResolveIds(uid, rid, scope).raised
          THEN /\ value_error' = TRUE
               /\ UNCHANGED adapter_calls
          ELSE /\ value_error' = FALSE
               /\ adapter_calls' =
                     adapter_calls \cup {AdapterCall("add", uid, rid, scope)}
    /\ UNCHANGED notScopeVars

\* manager.py:110-120  search_memories
search_memories ==
    /\ Cardinality(adapter_calls) < MaxAdapterCalls
    /\ \E uid \in UserIdInputs, rid \in RunIdInputs, scope \in Scopes :
          IF ResolveIds(uid, rid, scope).raised
          THEN /\ value_error' = TRUE
               /\ UNCHANGED adapter_calls
          ELSE /\ value_error' = FALSE
               /\ adapter_calls' =
                     adapter_calls \cup {AdapterCall("search", uid, rid, scope)}
    /\ UNCHANGED notScopeVars

ScopeNext ==
    \/ add_memory
    \/ search_memories

-----------------------------------------------------------------------------
(* _execute_tool: the delete_memory tool                                   *)

\* Largest number of vector records the store holds for the query.
MaxVecs == 2

\* Largest number of graph relations per namespace.
MaxRels == 1

\* Largest number of ids in the reviewer's answer.
MaxReviewIds == 2

VecIds == {"v" \o Str(i) : i \in 1..MaxVecs}

\* agent_service.py:201, 209, 236: the synthetic id of a graph relation.
GraphOnly == "graph_only"

\* What the reviewer LLM may name: ids of records, the synthetic id, and an
\* id that belongs to no record.
ReviewIds == VecIds \cup {GraphOnly, "no-such-id"}

\* The texts the neutralizing LLM call may return.
Statements == {"the user's name is unknown", "the user's home is unknown"}

\* The namespaces the tool reads and writes, as the manager resolves them from
\* (str(user_id), str(conversation_id) or None, scope).
NsOf(uid, cid, scope) ==
    ResolveIds(Str(uid), IF scope = "local" THEN Str(cid) ELSE None, scope).target_user_id

\* Some enumeration of a finite set (the order of search hits).
SeqOf(S) ==
    CHOOSE f \in [1..Cardinality(S) -> S] :
        \A i, j \in 1..Cardinality(S) : i # j => f[i] # f[j]

\* agent_service.py:166-186, 195-209: the candidates one search contributes,
\* vector hits first, then one graph_only entry per relation.
CandidatesOf(vecs, rels, scope) ==
    [i \in 1..Cardinality(vecs) |->
        [id |-> SeqOf(vecs)[i].id, content |-> SeqOf(vecs)[i].text, scope |-> scope]]
    \o
    [i \in 1..Cardinality(rels) |->
        [id |-> GraphOnly, content |-> SeqOf(rels)[i].rel, scope |-> scope]]

\* agent_service.py:237  next((c for c in candidates if c['id'] == mem_id), None)
HasTarget(cands, mem_id) == \E i \in 1..Len(cands) : cands[i].id = mem_id

\* The None of next(..., None).
NoTarget == [id |-> None, content |-> None, scope |-> None]

Target(cands, mem_id) ==
    IF HasTarget(cands, mem_id)
    THEN cands[CHOOSE i \in 1..Len(cands) :
                  /\ cands[i].id = mem_id
                  /\ \A j \in 1..(i - 1) : cands[j].id # mem_id]
    ELSE NoTarget

\* agent_service.py:236-238  the ids the delete loop passes over: the
\* synthetic id, and an id that names no candidate.
IsSkippedUnlessCandidate(cands, mem_id) == ~HasTarget(cands, mem_id)

IsSkippedOnlyGraph(cands, mem_id) == mem_id = GraphOnly

IsSkipped(cands, mem_id) == mem_id = GraphOnly \/ ~HasTarget(cands, mem_id)

\* agent_service.py:211  if not candidates: return the no-match string
NoCandidatesNever(cands) == FALSE

NoCandidates(cands) == cands = <<>>

\* agent_service.py:244  if deleted_contents or (candidates and not ids_to_delete)
ResetCondition(deleted, cands, ids) ==
    Len(deleted) > 0 \/ (Len(cands) > 0 /\ Len(ids) = 0)

ResetRecords(st, ns) == {r \in st : r.type = "graph_reset" /\ r.ns = ns}

\* The record an add of a reset statement leaves in namespace ns.
ResetRecord(st, ns, text) ==
    [id |-> "reset-" \o Str(Cardinality({r \in st : r.type = "graph_reset"}) + 1),
     ns |-> ns, text |-> text, type |-> "graph_reset"]

DeleteIdle ==
    /\ dpc = "idle"
    /\ user_id = 1
    /\ conversation_id = 1
    /\ store = {}
    /\ relations = {}
    /\ candidates = <<>>
    /\ ids_to_delete = <<>>
    /\ del_idx = 0
    /\ deleted_contents = <<>>
    /\ neutral_statement = None
    /\ reset_started = FALSE
    /\ tool_result = "none"

\* The tool is called for user user_id from conversation conversation_id; the
\* store holds any placement of the records and relations the query matches.
DeleteInit ==
    /\ dpc = "start"
    /\ user_id = 1
    /\ conversation_id \in 1..MaxId
    /\ \E place \in [VecIds -> {"local", "global", "absent"}] :
          store = {[id |-> v, ns |-> NsOf(user_id, conversation_id, place[v]),
                    text |-> "fact " \o v, type |-> "fact"] :
                   v \in {w \in VecIds : place[w] # "absent"}}
    /\ \E nl \in 0..MaxRels, ng \in 0..MaxRels :
          relations =
             {[ns |-> NsOf(user_id, conversation_id, "local"),
               rel |-> "local edge " \o Str(k)] : k \in 1..nl}
             \cup
             {[ns |-> NsOf(user_id, conversation_id, "global"),
               rel |-> "global edge " \o Str(k)] : k \in 1..ng}
    /\ candidates = <<>>
    /\ ids_to_delete = <<>>
    /\ del_idx = 0
    /\ deleted_contents = <<>>
    /\ neutral_statement = None
    /\ reset_started = FALSE
    /\ tool_result = "none"

\* The tool returns `res` and its run is over.
Return(res) ==
    /\ dpc' = "done"
    /\ tool_result' = res

\* line 190: query_content = tool_args["content"]
ReadContent ==
    /\ dpc = "start"
    /\ dpc' = "search_local"
    /\ UNCHANGED <<user_id, conversation_id, store, relations, candidates,
                   ids_to_delete, del_idx, deleted_contents, neutral_statement,
                   reset_started, tool_result, notDeleteVars>>

\* line 190 raises KeyError (no "content" argument): caught at line 319.
ContentMissing ==
    /\ dpc = "start"
    /\ Return(ToolErrorResult)
    /\ UNCHANGED <<user_id, conversation_id, store, relations, candidates,
                   ids_to_delete, del_idx, deleted_contents, neutral_statement,
                   reset_started, notDeleteVars>>

\* lines 195-201: the local search. search_memories returns the adapter's
\* result, or [] when the adapter's search raised (manager.py:118-120).
SearchLocal ==
    /\ dpc = "search_local"
    /\ \E found \in BOOLEAN :
          LET ns == NsOf(user_id, conversation_id, "local")
              vecs == IF found THEN {r \in store : r.ns = ns} ELSE {}
              rels == IF found THEN {r \in relations : r.ns = ns} ELSE {}
          IN  candidates' = candidates \o CandidatesOf(vecs, rels, "local")
    /\ dpc' = "search_global"
    /\ UNCHANGED <<user_id, conversation_id, store, relations, ids_to_delete,
                   del_idx, deleted_contents, neutral_statement, reset_started,
                   tool_result, notDeleteVars>>

\* lines 204-211: the global search, then the return when nothing was found.
SearchGlobal ==
    /\ dpc = "search_global"
    /\ \E found \in BOOLEAN :
          LET ns == NsOf(user_id, conversation_id, "global")
              vecs == IF found THEN {r \in store : r.ns = ns} ELSE {}
              rels == IF found THEN {r \in relations : r.ns = ns} ELSE {}
          IN  candidates' = candidates \o CandidatesOf(vecs, rels, "global")
    /\ IF NoCandidates(candidates')
       THEN Return(NoMatchResult)
       ELSE dpc' = "review" /\ UNCHANGED tool_result
    /\ UNCHANGED <<user_id, conversation_id, store, relations, ids_to_delete,
                   del_idx, deleted_contents, neutral_statement, reset_started,
                   notDeleteVars>>

\* A search raises out of the manager (its _get_client could not build the
\* adapter): caught at line 319.
SearchRaises ==
    /\ dpc \in {"search_local", "search_global"}
    /\ Return(ToolErrorResult)
    /\ UNCHANGED <<user_id, conversation_id, store, relations, candidates,
                   ids_to_delete, del_idx, deleted_contents, neutral_statement,
                   reset_started, notDeleteVars>>

\* lines 224-230: the reviewer answers with a JSON array of strings.
ReviewReturnsIds ==
    /\ dpc = "review"
    /\ \E n \in 0..MaxReviewIds : \E ids \in [1..n -> ReviewIds] :
          ids_to_delete' = ids
    /\ dpc' = "delete"
    /\ UNCHANGED <<user_id, conversation_id, store, relations, candidates,
                   del_idx, deleted_contents, neutral_statement, reset_started,
                   tool_result, notDeleteVars>>

\* lines 224-231: the reviewer call raises, or its answer is not JSON:
\* except: ids_to_delete = []
ReviewFails ==
    /\ dpc = "review"
    /\ ids_to_delete' = <<>>
    /\ dpc' = "delete"
    /\ UNCHANGED <<user_id, conversation_id, store, relations, candidates,
                   del_idx, deleted_contents, neutral_statement, reset_started,
                   tool_result, notDeleteVars>>

\* lines 230, 235: the answer is JSON but no array (a number, null): the for
\* statement raises TypeError, caught at line 319.
ReviewNotIterable ==
    /\ dpc = "review"
    /\ Return(ToolErrorResult)
    /\ UNCHANGED <<user_id, conversation_id, store, relations, candidates,
                   ids_to_delete, del_idx, deleted_contents, neutral_statement,
                   reset_started, notDeleteVars>>

\* lines 235-238: an id that is graph_only, or that names no candidate.
DeleteSkips ==
    /\ dpc = "delete"
    /\ del_idx < Len(ids_to_delete)
    /\ IsSkipped(candidates, ids_to_delete[del_idx + 1])
    /\ del_idx' = del_idx + 1
    /\ UNCHANGED <<dpc, user_id, conversation_id, store, relations, candidates,
                   ids_to_delete, deleted_contents, neutral_statement,
                   reset_started, tool_result, notDeleteVars>>

\* lines 235-240: the id names a candidate and the manager deletes it.
DeleteTarget ==
    /\ dpc = "delete"
    /\ del_idx < Len(ids_to_delete)
    /\ LET mem_id == ids_to_delete[del_idx + 1]
       IN  /\ ~IsSkipped(candidates, mem_id)
           /\ store' = {r \in store : r.id # mem_id}
           /\ deleted_contents' =
                 Append(deleted_contents, Target(candidates, mem_id).content)
    /\ del_idx' = del_idx + 1
    /\ UNCHANGED <<dpc, user_id, conversation_id, relations, candidates,
                   ids_to_delete, neutral_statement, reset_started, tool_result,
                   notDeleteVars>>

\* line 239 raises (the adapter's delete failed): caught at line 319.
DeleteRaises ==
    /\ dpc = "delete"
    /\ del_idx < Len(ids_to_delete)
    /\ ~IsSkipped(candidates, ids_to_delete[del_idx + 1])
    /\ Return(ToolErrorResult)
    /\ UNCHANGED <<user_id, conversation_id, store, relations, candidates,
                   ids_to_delete, del_idx, deleted_contents, neutral_statement,
                   reset_started, notDeleteVars>>

\* line 244: the reset condition holds; the reset block is entered.
ResetStarts ==
    /\ dpc = "delete"
    /\ del_idx = Len(ids_to_delete)
    /\ ResetCondition(deleted_contents, candidates, ids_to_delete)
    /\ reset_started' = TRUE
    /\ dpc' = "neutralize"
    /\ UNCHANGED <<user_id, conversation_id, store, relations, candidates,
                   ids_to_delete, del_idx, deleted_contents, neutral_statement,
                   tool_result, notDeleteVars>>

\* lines 244, 291: the reset condition fails; return the success string.
ResetSkipped ==
    /\ dpc = "delete"
    /\ del_idx = Len(ids_to_delete)
    /\ ~ResetCondition(deleted_contents, candidates, ids_to_delete)
    /\ Return(SuccessResult)
    /\ UNCHANGED <<user_id, conversation_id, store, relations, candidates,
                   ids_to_delete, del_idx, deleted_contents, neutral_statement,
                   reset_started, notDeleteVars>>

\* lines 260-263: the neutralizing LLM call returns a statement.
Neutralize ==
    /\ dpc = "neutralize"
    /\ \E s \in Statements : neutral_statement' = s
    /\ dpc' = "add_global"
    /\ UNCHANGED <<user_id, conversation_id, store, relations, candidates,
                   ids_to_delete, del_idx, deleted_contents, reset_started,
                   tool_result, notDeleteVars>>

\* lines 266-273: the reset statement is added to the global namespace; the
\* local add follows if conversation_id is truthy (line 277).
AddGlobalReset ==
    /\ dpc = "add_global"
    /\ store' = store \cup
          {ResetRecord(store, NsOf(user_id, conversation_id, "global"),
                       neutral_statement)}
    /\ IF conversation_id # 0
       THEN dpc' = "add_local" /\ UNCHANGED tool_result
       ELSE Return(SuccessResult)
    /\ UNCHANGED <<user_id, conversation_id, relations, candidates,
                   ids_to_delete, del_idx, deleted_contents, neutral_statement,
                   reset_started, notDeleteVars>>

\* lines 278-285, 291: the reset statement is added to the local namespace.
AddLocalReset ==
    /\ dpc = "add_local"
    /\ store' = store \cup
          {ResetRecord(store, NsOf(user_id, conversation_id, "local"),
                       neutral_statement)}
    /\ Return(SuccessResult)
    /\ UNCHANGED <<user_id, conversation_id, relations, candidates,
                   ids_to_delete, del_idx, deleted_contents, neutral_statement,
                   reset_started, notDeleteVars>>

\* lines 259-291: the neutralizing LLM call or one of the two adds raises:
\* except Exception logs the error, and line 291 returns the success string.
ResetRaises ==
    /\ dpc \in {"neutralize", "add_global", "add_local"}
    /\ Return(SuccessResult)
    /\ UNCHANGED <<user_id, conversation_id, store, relations, candidates,
                   ids_to_delete, del_idx, deleted_contents, neutral_statement,
                   reset_started, notDeleteVars>>

DeleteNext ==
    \/ ReadContent
    \/ ContentMissing
    \/ SearchLocal
    \/ SearchGlobal
    \/ SearchRaises
    \/ ReviewReturnsIds
    \/ ReviewFails
    \/ ReviewNotIterable
    \/ DeleteSkips
    \/ DeleteTarget
    \/ DeleteRaises
    \/ ResetStarts
    \/ ResetSkipped
    \/ Neutralize
    \/ AddGlobalReset
    \/ AddLocalReset
    \/ ResetRaises

-----------------------------------------------------------------------------
(* MemoryManager: the adapter cache                                        *)

\* Number of threads that call the manager (requests of the web server, or
\* the tool executions of one LLM turn).
NThreads == 2

\* Largest number of manager calls started in one run of the model.
MaxCalls == 2

Threads == 1..NThreads

\* manager.py:44-45  the base_url written back for a deepseek model.
DeepSeekUrl == "https://api.deepseek.com"

\* llm_settings = None (or {}): no settings supplied.
NoSettings == [given |-> FALSE, model_name |-> "", base_url |-> None]

\* The llm_settings values: None, or a dict with model_name and base_url (the
\* api_key and provider fields are the same in every value); base_url is
\* missing in two of them.
SettingsValues ==
    {NoSettings,
     [given |-> TRUE, model_name |-> "gpt-4o", base_url |-> None],
     [given |-> TRUE, model_name |-> "deepseek-chat", base_url |-> None],
     [given |-> TRUE, model_name |-> "deepseek-chat", base_url |-> DeepSeekUrl]}

\* manager.py:23-25  _get_config_hash: "default" without settings, else the
\* md5 of the sorted JSON dump, a function of the dict's content.
GetConfigHash(s) ==
    IF ~s.given THEN "default"
    ELSE "md5{base_url: " \o s.base_url \o ", model_name: " \o s.model_name \o "}"

Fingerprints == {GetConfigHash(s) : s \in SettingsValues}

\* manager.py:38-47  a missing base_url of a deepseek model is written back
\* into the caller's llm_settings dict.
CompleteSettings(s) ==
    IF s.given /\ ~Truthy(s.base_url) /\ s.model_name = "deepseek-chat"
    THEN [s EXCEPT !.base_url = DeepSeekUrl]
    ELSE s

\* The manager's public operations (manager.py:70, 86, 110, 122, 149, 152).
Ops == {"warm_up", "add", "search", "get", "update", "delete"}

\* manager.py:99-108  the recovery runs for a 404 / Not found error of the
\* first add only: the second add is outside the try statement.
ShouldRecoverAlways(attempts_made, err) == err = "404"

ShouldRecoverAnyError(attempts_made, err) == attempts_made = 0

ShouldRecover(attempts_made, err) == attempts_made = 0 /\ err = "404"

IdleThread ==
    [pc |-> "idle", op |-> "none", config_hash |-> "", client |-> 0,
     first_client |-> 0, tries |-> <<>>, evict_hash |-> "", outcome |-> "none"]

ManagerIdle ==
    /\ clients = [h \in Fingerprints |-> 0]
    /\ built = 0
    /\ evictions = 0
    /\ started = 0
    /\ uses = [t \in Threads |-> 1]
    /\ llm_settings = [o \in Threads |-> NoSettings]
    /\ thr = [t \in Threads |-> IdleThread]

\* The cache is empty; the threads pass one shared llm_settings dict (the tool
\* executions of one chat_agent run) or a dict of their own with the same
\* content (requests of one user).
ManagerInit ==
    /\ clients = [h \in Fingerprints |-> 0]
    /\ built = 0
    /\ evictions = 0
    /\ started = 0
    /\ \E shared \in BOOLEAN : uses = [t \in Threads |-> IF shared THEN 1 ELSE t]
    /\ \E v \in SettingsValues : llm_settings = [o \in Threads |-> v]
    /\ thr = [t \in Threads |-> IdleThread]

\* The state of thread t after _get_client returned client c for hash h.
WithClient(t, h, c) ==
    IF thr[t].op = "warm_up"
    THEN [thr[t] EXCEPT !.config_hash = h, !.client = c,
                        !.pc = "idle", !.outcome = "ok"]
    ELSE [thr[t] EXCEPT !.config_hash = h, !.client = c, !.pc = "call",
                        !.first_client = IF thr[t].tries = <<>> THEN c ELSE @]

\* Thread t is done with its call: it returned (ok) or raised.
Finished(t, outcome) == [thr[t] EXCEPT !.pc = "idle", !.outcome = outcome]

\* The operations the tool executions of one LLM turn run in parallel
\* (agent_service.py:299, 303): add_memory and search_memories.
ToolOps == {"add", "search"}

\* A thread calls warm_up_client, add_memory, search_memories, get_memories,
\* update_memory or delete_memory; each starts with _get_client.
CallStarts(t, ops) ==
    /\ thr[t].pc = "idle"
    /\ started < MaxCalls
    /\ started' = started + 1
    /\ \E op \in ops :
          thr' = [thr EXCEPT ![t] = [IdleThread EXCEPT !.pc = "get_client", !.op = op]]
    /\ UNCHANGED <<clients, built, evictions, uses, llm_settings, notManagerVars>>

\* manager.py:28-30  the hash is cached: return the cached adapter.
GetClientHit(t) ==
    /\ thr[t].pc = "get_client"
    /\ LET h == GetConfigHash(llm_settings[uses[t]])
       IN  /\ clients[h] # 0
           /\ thr' = [thr EXCEPT ![t] = WithClient(t, h, clients[h])]
    /\ UNCHANGED <<clients, built, evictions, started, uses, llm_settings,
                   notManagerVars>>

\* manager.py:28-56  the hash is not cached: the settings are completed in
\* place and the construction of an adapter begins.
GetClientMiss(t) ==
    /\ thr[t].pc = "get_client"
    /\ LET h == GetConfigHash(llm_settings[uses[t]])
       IN  /\ clients[h] = 0
           /\ thr' = [thr EXCEPT ![t].config_hash = h, ![t].pc = "construct"]
    /\ llm_settings' =
          [llm_settings EXCEPT ![uses[t]] = CompleteSettings(llm_settings[uses[t]])]
    /\ UNCHANGED <<clients, built, evictions, started, uses, notManagerVars>>

\* manager.py:58-68  Memory.from_config returns; the adapter is stored under
\* the hash computed at line 28.
Construct(t) ==
    /\ thr[t].pc = "construct"
    /\ built' = built + 1
    /\ clients' = [clients EXCEPT ![thr[t].config_hash] = built + 1]
    /\ thr' = [thr EXCEPT ![t] = WithClient(t, thr[t].config_hash, built + 1)]
    /\ UNCHANGED <<evictions, started, uses, llm_settings, notManagerVars>>

\* manager.py:66  Memory.from_config raises: warm_up_client logs it
\* (lines 74-75), every other operation lets it propagate.
ConstructRaises(t) ==
    /\ thr[t].pc = "construct"
    /\ thr' = [thr EXCEPT ![t] =
                  Finished(t, IF thr[t].op = "warm_up" THEN "ok" ELSE "raised")]
    /\ UNCHANGED <<clients, built, evictions, started, uses, llm_settings,
                   notManagerVars>>

\* manager.py:100, 107  client.add returns.
AddReturns(t) ==
    /\ thr[t].pc = "call"
    /\ thr[t].op = "add"
    /\ thr' = [thr EXCEPT ![t] =
                  [Finished(t, "ok") EXCEPT !.tries = Append(@, "ok")]]
    /\ UNCHANGED <<clients, built, evictions, started, uses, llm_settings,
                   notManagerVars>>

\* manager.py:100-108  client.add raises: the recovery starts for a 404 of the
\* first attempt, every other error propagates.
AddRaises(t) ==
    /\ thr[t].pc = "call"
    /\ thr[t].op = "add"
    /\ \E err \in {"404", "other"} :
          thr' = [thr EXCEPT ![t] =
                     IF ShouldRecover(Len(thr[t].tries), err)
                     THEN [thr[t] EXCEPT !.tries = Append(@, err), !.pc = "recover"]
                     ELSE [Finished(t, "raised") EXCEPT !.tries = Append(@, err)]]
    /\ UNCHANGED <<clients, built, evictions, started, uses, llm_settings,
                   notManagerVars>>

\* manager.py:104-105  config_hash = _get_config_hash(llm_settings) and the
\* test `config_hash in self._clients`.
RecoverCheck(t) ==
    /\ thr[t].pc = "recover"
    /\ LET h == GetConfigHash(llm_settings[uses[t]])
       IN  thr' = [thr EXCEPT ![t].evict_hash = h,
                              ![t].pc = IF clients[h] # 0 THEN "evict"
                                        ELSE "get_client"]
    /\ UNCHANGED <<clients, built, evictions, started, uses, llm_settings,
                   notManagerVars>>

\* manager.py:105  del self._clients[config_hash]; KeyError if another thread
\* deleted the entry after the test.
Evict(t) ==
    /\ thr[t].pc = "evict"
    /\ LET h == thr[t].evict_hash
       IN  IF clients[h] # 0
           THEN /\ clients' = [clients EXCEPT ![h] = 0]
                /\ evictions' = evictions + 1
                /\ thr' = [thr EXCEPT ![t].pc = "get_client"]
           ELSE /\ thr' = [thr EXCEPT ![t] = Finished(t, "raised")]
                /\ UNCHANGED <<clients, evictions>>
    /\ UNCHANGED <<built, started, uses, llm_settings, notManagerVars>>

\* manager.py:116-120, 129-133, 150, 153  the adapter call of the other
\* operations: search_memories and get_memories catch an error of the
\* adapter, update_memory and delete_memory let it propagate.
ClientCall(t) ==
    /\ thr[t].pc = "call"
    /\ thr[t].op \in {"search", "get", "update", "delete"}
    /\ \E ok \in BOOLEAN :
          thr' = [thr EXCEPT ![t] =
                     Finished(t, IF ok \/ thr[t].op \in {"search", "get"}
                                 THEN "ok" ELSE "raised")]
    /\ UNCHANGED <<clients, built, evictions, started, uses, llm_settings,
                   notManagerVars>>

ManagerNext ==
    \/ \E t \in Threads : CallStarts(t, ToolOps)
    \/ \E t \in Threads : GetClientHit(t)
    \/ \E t \in Threads : GetClientMiss(t)
    \/ \E t \in Threads : Construct(t)
    \/ \E t \in Threads : ConstructRaises(t)
    \/ \E t \in Threads : AddReturns(t)
    \/ \E t \in Threads : AddRaises(t)
    \/ \E t \in Threads : RecoverCheck(t)
    \/ \E t \in Threads : Evict(t)
    \/ \E t \in Threads : ClientCall(t)

\* The calls of one thread, one after the other.
ManagerSeqNext ==
    \/ CallStarts(1, Ops)
    \/ GetClientHit(1)
    \/ GetClientMiss(1)
    \/ Construct(1)
    \/ ConstructRaises(1)
    \/ AddReturns(1)
    \/ AddRaises(1)
    \/ RecoverCheck(1)
    \/ Evict(1)
    \/ ClientCall(1)

-----------------------------------------------------------------------------
(* send_message_stream: the generator of the streaming endpoint            *)

\* Largest number of messages the conversation holds before the request.
MaxPrior == 21

\* Largest length of the text chat_agent returns.
MaxTextLen == 21

\* chat.py:240  ... ORDER BY created_at ASC LIMIT 20
HistoryLimit == 20

\* chat.py:256  chunk_size = 10
chunk_size == 10

Min(a, b) == IF a < b THEN a ELSE b

\* A text of n characters (texts are sequences of characters).
Text(n) == [i \in 1..n |-> i]

\* The content of the request (data['content'].strip()).
UserContent == <<0>>

\* What chat_agent returns: a text, or None (agent_service.py:351 returns
\* response_message.content, which is None for a reply without content).
FinalContents ==
    {[is_none |-> TRUE, text |-> <<>>]}
    \cup {[is_none |-> FALSE, text |-> Text(n)] : n \in 0..MaxTextLen}

NoContent == [is_none |-> TRUE, text |-> <<>>]

\* A row of the messages table.
Row(id, role, content) == [id |-> id, role |-> role, content |-> content]

\* A conversation of n messages, user and assistant in turn.
Conversation(n) ==
    [k \in 1..n |-> Row(k, IF k % 2 = 1 THEN "user" ELSE "assistant", <<k>>)]

\* The events of the stream (chat.py:236, 259, 271, 275).
UserMessageEvent(id, content) ==
    [type |-> "user_message", message_id |-> id, content |-> content]

TokenEvent(chunk) == [type |-> "token", message_id |-> 0, content |-> chunk]

DoneEvent(id) == [type |-> "done", message_id |-> id, content |-> <<>>]

ErrorEvent == [type |-> "error", message_id |-> 0, content |-> <<>>]

\* chat.py:239-243  SELECT role, content ... ORDER BY created_at ASC LIMIT 20,
\* then history_messages[:-1]. The rows are taken in insertion order.
HistoryOf(rows) ==
    LET history_messages == SubSeq(rows, 1, Min(Len(rows), HistoryLimit))
    IN  [k \in 1..(Len(history_messages) - 1) |->
            [role |-> history_messages[k].role,
             content |-> history_messages[k].content]]

\* chat.py:258  chunk = final_content[i:i+chunk_size]
ChunkShort(text, i) == SubSeq(text, i + 1, Min(i + chunk_size - 1, Len(text)))

Chunk(text, i) == SubSeq(text, i + 1, Min(i + chunk_size, Len(text)))

\* chat.py:273-275  except Exception: yield the error event.
OnExceptionSilent(evts) == evts

OnException(evts) == Append(evts, ErrorEvent)

StreamIdle ==
    /\ spc = "idle"
    /\ table = <<>>
    /\ message_count = 0
    /\ events = <<>>
    /\ connected = TRUE
    /\ user_message_id = 0
    /\ history = <<>>
    /\ final_content = NoContent
    /\ offset = 0
    /\ failed = FALSE

\* The response starts to iterate generate() for a conversation that holds
\* n messages.
StreamInit ==
    /\ spc = "start"
    /\ \E n \in 0..MaxPrior :
          /\ table = Conversation(n)
          /\ message_count = n
    /\ events = <<>>
    /\ connected = TRUE
    /\ user_message_id = 0
    /\ history = <<>>
    /\ final_content = NoContent
    /\ offset = 0
    /\ failed = FALSE

\* The generator is suspended at a yield: it is resumed at `resume`, or, when
\* the client is gone and the server's write fails, closed (GeneratorExit is
\* raised at the yield and is no Exception).
Yielded(resume) ==
    \/ spc' = resume
    \/ ~connected /\ spc' = "closed"

\* The client stops reading the response.
ClientDisconnects ==
    /\ spc \notin {"idle", "done", "closed"}
    /\ connected
    /\ connected' = FALSE
    /\ UNCHANGED <<spc, table, message_count, events, user_message_id, history,
                   final_content, offset, failed, notStreamVars>>

\* chat.py:231-236  INSERT the user message, yield the user_message event.
SaveUserMessage ==
    /\ spc = "start"
    /\ table' = Append(table, Row(Len(table) + 1, "user", UserContent))
    /\ user_message_id' = Len(table) + 1
    /\ events' = Append(events, UserMessageEvent(Len(table) + 1, UserContent))
    /\ Yielded("history")
    /\ UNCHANGED <<message_count, connected, history, final_content, offset,
                   failed, notStreamVars>>

\* chat.py:239-243  load the history.
LoadHistory ==
    /\ spc = "history"
    /\ history' = HistoryOf(table)
    /\ spc' = "agent"
    /\ UNCHANGED <<table, message_count, events, connected, user_message_id,
                   final_content, offset, failed, notStreamVars>>

\* chat.py:247-252  chat_agent returns; the token loop starts at i = 0.
AgentReturns ==
    /\ spc = "agent"
    /\ final_content' \in FinalContents
    /\ offset' = 0
    /\ spc' = "tokens"
    /\ UNCHANGED <<table, message_count, events, connected, user_message_id,
                   history, failed, notStreamVars>>

\* chat.py:257-259  one round of the token loop.
EmitToken ==
    /\ spc = "tokens"
    /\ ~final_content.is_none
    /\ offset < Len(final_content.text)
    /\ events' = Append(events, TokenEvent(Chunk(final_content.text, offset)))
    /\ offset' = offset + chunk_size
    /\ Yielded("tokens")
    /\ UNCHANGED <<table, message_count, connected, user_message_id, history,
                   final_content, failed, notStreamVars>>

\* chat.py:262-265  the token loop is over: INSERT the assistant message.
SaveAssistantMessage ==
    /\ spc = "tokens"
    /\ ~final_content.is_none
    /\ offset >= Len(final_content.text)
    /\ table' = Append(table, Row(Len(table) + 1, "assistant", final_content.text))
    /\ spc' = "metadata"
    /\ UNCHANGED <<message_count, events, connected, user_message_id, history,
                   final_content, offset, failed, notStreamVars>>

\* chat.py:266-271  UPDATE the conversation, yield the done event.
UpdateMetadata ==
    /\ spc = "metadata"
    /\ message_count' = message_count + 2
    /\ events' = Append(events, DoneEvent(Len(table)))
    /\ Yielded("done")
    /\ UNCHANGED <<table, connected, user_message_id, history, final_content,
                   offset, failed, notStreamVars>>

\* chat.py:257  len(final_content) raises TypeError for None; chat.py:231,
\* 239, 262, 266  a statement on the database raises. The except clause
\* yields the error event and the generator ends.
StatementRaises ==
    /\ \/ spc \in {"start", "history", "metadata"}
       \/ spc = "tokens" /\ final_content.is_none
       \/ spc = "tokens" /\ ~final_content.is_none
                         /\ offset >= Len(final_content.text)
    /\ failed' = TRUE
    /\ events' = OnException(events)
    /\ Yielded("done")
    /\ UNCHANGED <<table, message_count, connected, user_message_id, history,
                   final_content, offset, notStreamVars>>

\* The content of another send request on the same conversation.
OtherContent == <<-1>>

\* chat.py:170-173, 231-234  another request on the same conversation runs
\* its INSERT of a user message after this generator's INSERT and before
\* its history query: each statement is committed on its own
\* (core/db.py:167-181) and nothing orders two requests.
OtherSendInserts ==
    /\ spc = "history"
    /\ \A k \in DOMAIN table : table[k].content # OtherContent
    /\ table' = Append(table, Row(Len(table) + 1, "user", OtherContent))
    /\ UNCHANGED <<spc, message_count, events, connected, user_message_id,
                   history, final_content, offset, failed, notStreamVars>>

\* agent_service.py:327-329  messages = [system] + history_messages + [user]
MessageList(hist, user_message) ==
    <<[role |-> "system", content |-> <<>>]>> \o hist \o
    <<[role |-> "user", content |-> user_message]>>

StreamNext ==
    \/ ClientDisconnects
    \/ SaveUserMessage
    \/ LoadHistory
    \/ AgentReturns
    \/ EmitToken
    \/ SaveAssistantMessage
    \/ UpdateMetadata
    \/ StatementRaises

-----------------------------------------------------------------------------
(* The conversation endpoints: concurrent requests on the tables           *)
(* `conversations` and `messages`, each statement committed on its own     *)
(* (core/db.py:167-181 execute_update opens a connection, runs one         *)
(* statement and commits).                                                 *)

\* Number of conversations of the user.
MaxConversations == 2

\* Number of requests that run at the same time.
MaxRequests == 2

\* Largest number of exchanges a conversation holds before the requests.
MaxPriorExchanges == 1

\* Largest number of records the agent adds to a local namespace.
MaxLocalMemories == 1

\* Length of the message content sent.
MaxContentLen == 31

ConversationIds == 1..MaxConversations

Requests == 1..MaxRequests

\* chat.py:42, 204  the placeholder title of a new conversation; its
\* characters are none of the characters of a message content.
DefaultTitle == <<-1, -2, -3>>

\* A title the user gave the conversation.
CustomTitle == <<-4>>

Titles == {<<>>, DefaultTitle, CustomTitle}

\* The contents of the send requests, after strip() (chat.py:163, 224).
RequestContents == {Text(MaxContentLen)}

\* What chat_agent returns to the endpoint: None or a text.
Replies == {NoContent, [is_none |-> FALSE, text |-> <<1>>]}

\* chat.py:205  content[:30]
AutoTitle(content) == SubSeq(content, 1, Min(30, Len(content)))

\* chat.py:204  if not title or title == placeholder
NeedsTitle(title) == title = <<>> \/ title = DefaultTitle

\* A row of `conversations` (core/db.py:33-44); a deleted row is NoRow.
ConversationRow(title, count) ==
    [exists |-> TRUE, title |-> title, message_count |-> count]

NoRow == [exists |-> FALSE, title |-> <<>>, message_count |-> 0]

\* A row of `messages` (core/db.py:47-56).
MessageRow(id, cid, role, content) ==
    [id |-> id, conversation_id |-> cid, role |-> role, content |-> content]

RECURSIVE PriorRows(_, _)
\* The rows of the exchanges stored before the requests: prior[c] exchanges
\* in conversation c, for the conversations 1..c.
PriorRows(prior, c) ==
    IF c = 0
    THEN <<>>
    ELSE LET before == PriorRows(prior, c - 1)
         IN  before \o
             [j \in 1..(2 * prior[c]) |->
                MessageRow(Len(before) + j, c,
                           IF j % 2 = 1 THEN "user" ELSE "assistant", <<j>>)]

\* The rows of a conversation, oldest first.
RowsOf(rows, cid) ==
    LET InConversation(row) == row.conversation_id = cid
    IN  SelectSeq(rows, InConversation)

\* DELETE FROM messages WHERE id = ? (chat.py:334)
DeleteRow(rows, id) ==
    LET Keep(row) == row.id # id
    IN  SelectSeq(rows, Keep)

\* core/db.py:54  FOREIGN KEY (conversation_id) ... ON DELETE CASCADE. SQLite
\* enforces foreign keys only on a connection that ran PRAGMA foreign_keys =
\* ON or in a build with SQLITE_DEFAULT_FOREIGN_KEYS=1; execute_update
\* (core/db.py:167-181) runs no PRAGMA.
Cascade(fk, rows, cids) ==
    LET Keep(row) == row.conversation_id \notin cids
    IN  IF fk THEN SelectSeq(rows, Keep) ELSE rows

\* An INSERT into messages for conversation cid is rejected when foreign keys
\* are enforced and the conversation is gone.
InsertRejected(fk, convs, cid) == fk /\ ~convs[cid].exists

\* agent_service.py:356  def delete_conversation_memories(self, *args): pass
delete_conversation_memories(mems, cid) == mems

IdleRequest ==
    [pc |-> "idle", op |-> "none", conversation_id |-> 0,
     conversation_ids |-> <<>>, content |-> <<>>, user_message_id |-> 0,
     assistant_message_id |-> 0, assistant_content |-> NoContent,
     message_id |-> 0, status |-> "none"]

\* The lists of ids a batch delete carries.
BatchLists ==
    UNION {[1..n -> ConversationIds] : n \in 1..MaxConversations}

Range(f) == {f[i] : i \in DOMAIN f}

ChatIdle ==
    /\ conversations = [c \in ConversationIds |-> NoRow]
    /\ messages_table = <<>>
    /\ next_message_id = 1
    /\ foreign_keys = FALSE
    /\ local_memories = [c \in ConversationIds |-> 0]
    /\ reqs = [r \in Requests |-> IdleRequest]
    /\ exchanges = [c \in ConversationIds |-> 0]
    /\ manual_deletes = [c \in ConversationIds |-> 0]

\* The user has MaxConversations conversations of one title; each holds
\* some exchanges stored by earlier turns.
ChatInit ==
    /\ foreign_keys \in BOOLEAN
    /\ \E prior \in [ConversationIds -> 0..MaxPriorExchanges],
          title \in Titles :
          /\ conversations =
                [c \in ConversationIds |->
                    ConversationRow(title, 2 * prior[c])]
          /\ messages_table = PriorRows(prior, MaxConversations)
          /\ next_message_id = Len(PriorRows(prior, MaxConversations)) + 1
          /\ exchanges = prior
    /\ local_memories = [c \in ConversationIds |-> 0]
    /\ reqs = [r \in Requests |-> IdleRequest]
    /\ manual_deletes = [c \in ConversationIds |-> 0]

\* The request ends with this answer; the locals of the handler are gone.
Ends(r, status) ==
    reqs' = [reqs EXCEPT ![r] =
               [IdleRequest EXCEPT
                  !.pc = "done", !.op = reqs[r].op,
                  !.conversation_id = reqs[r].conversation_id,
                  !.conversation_ids = reqs[r].conversation_ids,
                  !.status = status]]

IsSend(r) == reqs[r].op \in {"send", "stream"}

\* chat.py:158-167, 212-226  a send request arrives: the content is not
\* empty, and the ownership check answers 404 for a conversation that is
\* gone.
SendStarts(r) ==
    /\ reqs[r].pc = "idle"
    /\ \E op \in {"send", "stream"}, cid \in ConversationIds,
          content \in RequestContents :
          reqs' = [reqs EXCEPT ![r] =
                     [IdleRequest EXCEPT
                        !.op = op, !.conversation_id = cid,
                        !.content = content,
                        !.pc = IF conversations[cid].exists
                               THEN "user" ELSE "done",
                        !.status = IF conversations[cid].exists
                                   THEN "running" ELSE "not_found"]]
    /\ UNCHANGED <<conversations, messages_table, next_message_id,
                   foreign_keys, local_memories, exchanges, manual_deletes,
                   notChatVars>>

\* chat.py:170-173, 231-236  INSERT the user message (the generator then
\* yields the user_message event).
InsertUserMessage(r) ==
    /\ reqs[r].pc = "user"
    /\ IsSend(r)
    /\ IF InsertRejected(foreign_keys, conversations, reqs[r].conversation_id)
       THEN /\ Ends(r, "error")
            /\ UNCHANGED <<messages_table, next_message_id>>
       ELSE /\ messages_table' =
                  Append(messages_table,
                         MessageRow(next_message_id, reqs[r].conversation_id,
                                    "user", reqs[r].content))
            /\ next_message_id' = next_message_id + 1
            /\ reqs' = [reqs EXCEPT ![r].pc = "agent",
                                    ![r].user_message_id = next_message_id]
    /\ UNCHANGED <<conversations, foreign_keys, local_memories, exchanges,
                   manual_deletes, notChatVars>>

\* chat.py:176-188, 239-252  the history is read and chat_agent runs; its
\* add_local_memory tool writes to the namespace of the conversation
\* (agent_service.py:294-299).
AgentRuns(r) ==
    /\ reqs[r].pc = "agent"
    /\ IsSend(r)
    /\ \E reply \in Replies :
          reqs' = [reqs EXCEPT ![r].pc = "assistant",
                               ![r].assistant_content = reply]
    /\ \/ UNCHANGED local_memories
       \/ /\ local_memories[reqs[r].conversation_id] < MaxLocalMemories
          /\ local_memories' =
                [local_memories EXCEPT ![reqs[r].conversation_id] = @ + 1]
    /\ UNCHANGED <<conversations, messages_table, next_message_id,
                   foreign_keys, exchanges, manual_deletes, notChatVars>>

\* The client of a streaming request is gone and the generator is closed at
\* a yield: after the user_message event (chat.py:236) or at a token event
\* (chat.py:259).
GeneratorClosed(r) ==
    /\ reqs[r].op = "stream"
    /\ \/ reqs[r].pc = "agent"
       \/ /\ reqs[r].pc = "assistant"
          /\ ~reqs[r].assistant_content.is_none
          /\ Len(reqs[r].assistant_content.text) > 0
    /\ Ends(r, "closed")
    /\ UNCHANGED <<conversations, messages_table, next_message_id,
                   foreign_keys, local_memories, exchanges, manual_deletes,
                   notChatVars>>

\* chat.py:191-194, 257-265  INSERT the assistant message. A reply of None
\* raises: the column is NOT NULL (core/db.py:52) and len(None) is a
\* TypeError (chat.py:257).
InsertAssistantMessage(r) ==
    /\ reqs[r].pc = "assistant"
    /\ IsSend(r)
    /\ IF \/ reqs[r].assistant_content.is_none
          \/ InsertRejected(foreign_keys, conversations,
                            reqs[r].conversation_id)
       THEN /\ Ends(r, "error")
            /\ UNCHANGED <<messages_table, next_message_id, exchanges>>
       ELSE /\ messages_table' =
                  Append(messages_table,
                         MessageRow(next_message_id, reqs[r].conversation_id,
                                    "assistant",
                                    reqs[r].assistant_content.text))
            /\ next_message_id' = next_message_id + 1
            /\ exchanges' = [exchanges EXCEPT ![reqs[r].conversation_id] = @ + 1]
            /\ reqs' = [reqs EXCEPT ![r].pc = "metadata",
                                    ![r].assistant_message_id = next_message_id]
    /\ UNCHANGED <<conversations, foreign_keys, local_memories,
                   manual_deletes, notChatVars>>

\* chat.py:197-200, 266-271  UPDATE conversations SET message_count =
\* message_count + 2 ... WHERE id = ? (no row is updated when the
\* conversation is gone). The generator then yields done and ends.
UpdateMetadataOf(convs, cid) ==
    IF convs[cid].exists
    THEN [convs EXCEPT ![cid].message_count = @ + 2]
    ELSE convs

UpdateConversation(r) ==
    /\ reqs[r].pc = "metadata"
    /\ IsSend(r)
    /\ conversations' = UpdateMetadataOf(conversations, reqs[r].conversation_id)
    /\ IF reqs[r].op = "stream"
       THEN Ends(r, "ok")
       ELSE reqs' = [reqs EXCEPT ![r].pc = "title"]
    /\ UNCHANGED <<messages_table, next_message_id, foreign_keys,
                   local_memories, exchanges, manual_deletes, notChatVars>>

\* chat.py:203-210  send_message only: the title is read ([0] raises
\* IndexError when the conversation is gone) and set to content[:30] when it
\* is empty or the placeholder.
SetTitle(r) ==
    /\ reqs[r].pc = "title"
    /\ reqs[r].op = "send"
    /\ LET cid == reqs[r].conversation_id
       IN  IF ~conversations[cid].exists
           THEN /\ Ends(r, "error")
                /\ UNCHANGED conversations
           ELSE /\ Ends(r, "ok")
                /\ conversations' =
                      IF NeedsTitle(conversations[cid].title)
                      THEN [conversations EXCEPT
                              ![cid].title = AutoTitle(reqs[r].content)]
                      ELSE conversations
    /\ UNCHANGED <<messages_table, next_message_id, foreign_keys,
                   local_memories, exchanges, manual_deletes, notChatVars>>

\* chat.py:319-332  a delete_message request arrives: 404 when the
\* conversation is gone or holds no message of this id.
DeleteMessageStarts(r) ==
    /\ reqs[r].pc = "idle"
    /\ \E cid \in ConversationIds, mid \in 1..(next_message_id - 1) :
          LET found ==
                /\ conversations[cid].exists
                /\ \E k \in 1..Len(messages_table) :
                      /\ messages_table[k].id = mid
                      /\ messages_table[k].conversation_id = cid
          IN  reqs' = [reqs EXCEPT ![r] =
                         [IdleRequest EXCEPT
                            !.op = "delete_message",
                            !.conversation_id = cid, !.message_id = mid,
                            !.pc = IF found THEN "delete" ELSE "done",
                            !.status = IF found THEN "running"
                                       ELSE "not_found"]]
    /\ UNCHANGED <<conversations, messages_table, next_message_id,
                   foreign_keys, local_memories, exchanges, manual_deletes,
                   notChatVars>>

\* chat.py:334  DELETE FROM messages WHERE id = ?
DeleteMessageRow(r) ==
    /\ reqs[r].pc = "delete"
    /\ reqs[r].op = "delete_message"
    /\ messages_table' = DeleteRow(messages_table, reqs[r].message_id)
    /\ manual_deletes' =
          [manual_deletes EXCEPT ![reqs[r].conversation_id] =
              @ + Len(messages_table) - Len(messages_table')]
    /\ reqs' = [reqs EXCEPT ![r].pc = "count"]
    /\ UNCHANGED <<conversations, next_message_id, foreign_keys,
                   local_memories, exchanges, notChatVars>>

\* chat.py:337-342  UPDATE conversations SET message_count = message_count - 1
DecrementCount(r) ==
    /\ reqs[r].pc = "count"
    /\ reqs[r].op = "delete_message"
    /\ conversations' =
          IF conversations[reqs[r].conversation_id].exists
          THEN [conversations EXCEPT
                  ![reqs[r].conversation_id].message_count = @ - 1]
          ELSE conversations
    /\ Ends(r, "ok")
    /\ UNCHANGED <<messages_table, next_message_id, foreign_keys,
                   local_memories, exchanges, manual_deletes, notChatVars>>

\* chat.py:87-92  a delete_conversation request arrives.
DeleteConversationStarts(r) ==
    /\ reqs[r].pc = "idle"
    /\ \E cid \in ConversationIds :
          reqs' = [reqs EXCEPT ![r] =
                     [IdleRequest EXCEPT
                        !.op = "delete_conversation",
                        !.conversation_id = cid,
                        !.conversation_ids = <<cid>>,
                        !.pc = IF conversations[cid].exists
                               THEN "drop" ELSE "done",
                        !.status = IF conversations[cid].exists
                                   THEN "running" ELSE "not_found"]]
    /\ UNCHANGED <<conversations, messages_table, next_message_id,
                   foreign_keys, local_memories, exchanges, manual_deletes,
                   notChatVars>>

\* chat.py:100-124  a batch delete arrives: 403 unless the SELECT finds as
\* many conversations as the list has entries.
BatchDeleteStarts(r) ==
    /\ reqs[r].pc = "idle"
    /\ \E ids \in BatchLists :
          LET found == {c \in Range(ids) : conversations[c].exists}
              allowed == Cardinality(found) = Len(ids)
          IN  reqs' = [reqs EXCEPT ![r] =
                         [IdleRequest EXCEPT
                            !.op = "batch_delete",
                            !.conversation_ids = ids,
                            !.pc = IF allowed THEN "drop" ELSE "done",
                            !.status = IF allowed THEN "running"
                                       ELSE "forbidden"]]
    /\ UNCHANGED <<conversations, messages_table, next_message_id,
                   foreign_keys, local_memories, exchanges, manual_deletes,
                   notChatVars>>

\* chat.py:95-98  delete_conversation_memories, then DELETE FROM
\* conversations WHERE id = ?
DeleteConversationRow(r) ==
    /\ reqs[r].pc = "drop"
    /\ reqs[r].op = "delete_conversation"
    /\ local_memories' =
          delete_conversation_memories(local_memories, reqs[r].conversation_id)
    /\ conversations' = [conversations EXCEPT ![reqs[r].conversation_id] = NoRow]
    /\ messages_table' =
          Cascade(foreign_keys, messages_table, {reqs[r].conversation_id})
    /\ Ends(r, "ok")
    /\ UNCHANGED <<next_message_id, foreign_keys, exchanges, manual_deletes,
                   notChatVars>>

\* chat.py:127-133  DELETE FROM conversations WHERE id IN (...)
BatchDeleteRows(r) ==
    /\ reqs[r].pc = "drop"
    /\ reqs[r].op = "batch_delete"
    /\ conversations' =
          [c \in ConversationIds |->
             IF c \in Range(reqs[r].conversation_ids)
             THEN NoRow ELSE conversations[c]]
    /\ messages_table' =
          Cascade(foreign_keys, messages_table, Range(reqs[r].conversation_ids))
    /\ Ends(r, "ok")
    /\ UNCHANGED <<next_message_id, foreign_keys, local_memories, exchanges,
                   manual_deletes, notChatVars>>

\* A statement raises (core/db.py:176-179: rollback and re-raise, as for a
\* locked database): the handler ends with an error answer, and the
\* statements it committed before stay committed.
StatementFails(r) ==
    /\ reqs[r].pc \in {"user", "agent", "assistant", "metadata", "title",
                       "delete", "count", "drop"}
    /\ Ends(r, "error")
    /\ UNCHANGED <<conversations, messages_table, next_message_id,
                   foreign_keys, local_memories, exchanges, manual_deletes,
                   notChatVars>>

ChatNext ==
    \/ \E r \in Requests : SendStarts(r)
    \/ \E r \in Requests : InsertUserMessage(r)
    \/ \E r \in Requests : AgentRuns(r)
    \/ \E r \in Requests : GeneratorClosed(r)
    \/ \E r \in Requests : InsertAssistantMessage(r)
    \/ \E r \in Requests : UpdateConversation(r)
    \/ \E r \in Requests : SetTitle(r)
    \/ \E r \in Requests : DeleteMessageStarts(r)
    \/ \E r \in Requests : DeleteMessageRow(r)
    \/ \E r \in Requests : DecrementCount(r)
    \/ \E r \in Requests : DeleteConversationStarts(r)
    \/ \E r \in Requests : BatchDeleteStarts(r)
    \/ \E r \in Requests : DeleteConversationRow(r)
    \/ \E r \in Requests : BatchDeleteRows(r)
    \/ \E r \in Requests : StatementFails(r)

-----------------------------------------------------------------------------
(* MemoryManager: the record operations. The adapter is a store of records *)
(* [id, user_id, memory, metadata]; add stores a record under params        *)
(* user_id, get_all(user_id) returns the records stored under it, update    *)
(* replaces the text of a record and delete removes it.                     *)

\* Largest number of records the adapter stores in a run of the model.
MaxMemories == 2

\* The ids the record operations are called with: a user, and as run_id
\* None, the text "0" (the "no conversation" value of api/memories.py:23 and
\* manager.py:124) and a conversation.
CrudUserIds == {Str(1)}

CrudRunIds == {None, "0", Str(1)}

\* The content of an add and the new text of an update.
AddedText == "x"

UpdateTexts == {"y"}

\* manager.py:92-96  final_metadata
FinalMetadata(uid, rid, scope) ==
    [real_user_id |-> uid,
     source_conversation_id |-> IF Truthy(rid) THEN rid ELSE None,
     scope |-> scope]

\* manager.py:124-127  the namespace get_memories reads.
GetTargetIgnoresRun(uid, rid) == uid

GetTarget(uid, rid) ==
    IF Truthy(rid) /\ rid # "0" THEN uid \o "_conv_" \o rid ELSE uid

\* What a caller sees of a record.
Shown(rec) == [id |-> rec.id, memory |-> rec.memory]

\* manager.py:130  client.get_all(user_id = target_user_id)
GetAll(vs, target) == {Shown(rec) : rec \in {v \in vs : v.user_id = target}}

\* manager.py:100  client.add(messages, **params)
AddMemory(vs, id, params, text, metadata) ==
    vs \cup {[id |-> id, user_id |-> params.user_id, memory |-> text,
              metadata |-> metadata]}

\* manager.py:149-150  update_memory: client.update(memory_id, new_data)
UpdateMemoryKeepsText(vs, memory_id, new_data) == vs

UpdateMemory(vs, memory_id, new_data) ==
    {IF v.id = memory_id THEN [v EXCEPT !.memory = new_data] ELSE v : v \in vs}

\* manager.py:152-153  delete_memory: client.delete(memory_id)
DeleteMemoryKeepsRecord(vs, memory_id) == vs

DeleteMemory(vs, memory_id) == {v \in vs : v.id # memory_id}

StoredIds(vs) == {v.id : v \in vs}

\* A manager call and what it returned. raised: the call raised; answered:
\* the adapter answered the call.
Call(op, uid, rid, scope, memory_id, data, raised, answered, target, results) ==
    [op |-> op, user_id |-> uid, run_id |-> rid, scope |-> scope,
     memory_id |-> memory_id, data |-> data, raised |-> raised,
     answered |-> answered, target |-> target, results |-> results]

NoCall == Call("none", None, None, None, 0, None, FALSE, FALSE, None, {})

CrudIdle ==
    /\ vectors = {}
    /\ next_vector_id = 1
    /\ last_call = NoCall

CrudInit == CrudIdle

\* manager.py:86-108  add_memory: ValueError from _resolve_ids, or the
\* adapter raises, or the record is stored.
AddMemoryCall ==
    /\ next_vector_id <= MaxMemories
    /\ \E uid \in CrudUserIds, rid \in CrudRunIds, scope \in Scopes :
          LET r == ResolveIds(uid, rid, scope)
          IN  IF r.raised
              THEN /\ last_call' = Call("add", uid, rid, scope, 0, AddedText,
                                   TRUE, FALSE, None, {})
                   /\ UNCHANGED <<vectors, next_vector_id>>
              ELSE \/ /\ last_call' = Call("add", uid, rid, scope, 0, AddedText,
                                      TRUE, FALSE, r.target_user_id, {})
                      /\ UNCHANGED <<vectors, next_vector_id>>
                   \/ /\ vectors' =
                            AddMemory(vectors, next_vector_id,
                                      AdapterParams(r), AddedText,
                                      FinalMetadata(uid, rid, scope))
                      /\ next_vector_id' = next_vector_id + 1
                      /\ last_call' = Call("add", uid, rid, scope, next_vector_id,
                                      AddedText, FALSE, TRUE,
                                      r.target_user_id, {})
    /\ UNCHANGED notCrudVars

\* manager.py:122-146  get_memories: the records of the target namespace,
\* or no record when get_all raises.
GetMemoriesCall ==
    /\ \E uid \in CrudUserIds, rid \in CrudRunIds :
          \/ last_call' = Call("get", uid, rid, None, 0, None, FALSE, TRUE,
                          GetTarget(uid, rid),
                          GetAll(vectors, GetTarget(uid, rid)))
          \/ last_call' = Call("get", uid, rid, None, 0, None, FALSE, FALSE,
                          GetTarget(uid, rid), {})
    /\ UNCHANGED <<vectors, next_vector_id, notCrudVars>>

\* manager.py:110-120  search_memories: some records of the target
\* namespace, or no record when the search raises.
SearchMemoriesCall ==
    /\ \E uid \in CrudUserIds, rid \in CrudRunIds, scope \in Scopes :
          LET r == ResolveIds(uid, rid, scope)
          IN  IF r.raised
              THEN last_call' = Call("search", uid, rid, scope, 0, None, TRUE,
                                FALSE, None, {})
              ELSE \/ \E hits \in SUBSET GetAll(vectors, r.target_user_id) :
                         last_call' = Call("search", uid, rid, scope, 0, None,
                                      FALSE, TRUE, r.target_user_id, hits)
                   \/ last_call' = Call("search", uid, rid, scope, 0, None, FALSE,
                                   FALSE, r.target_user_id, {})
    /\ UNCHANGED <<vectors, next_vector_id, notCrudVars>>

\* manager.py:149-150  update_memory: the adapter raises (as for an id it
\* does not hold) or replaces the text.
UpdateMemoryCall ==
    /\ \E id \in 1..MaxMemories, text \in UpdateTexts :
          IF id \in StoredIds(vectors)
          THEN \/ /\ vectors' = UpdateMemory(vectors, id, text)
                  /\ last_call' = Call("update", None, None, None, id, text,
                                  FALSE, TRUE, None, {})
               \/ /\ last_call' = Call("update", None, None, None, id, text,
                                  TRUE, FALSE, None, {})
                  /\ UNCHANGED vectors
          ELSE /\ last_call' = Call("update", None, None, None, id, text,
                               TRUE, FALSE, None, {})
               /\ UNCHANGED vectors
    /\ UNCHANGED <<next_vector_id, notCrudVars>>

\* manager.py:152-153  delete_memory: the adapter raises (as for an id it
\* does not hold) or removes the record.
DeleteMemoryCall ==
    /\ \E id \in 1..MaxMemories :
          IF id \in StoredIds(vectors)
          THEN \/ /\ vectors' = DeleteMemory(vectors, id)
                  /\ last_call' = Call("delete", None, None, None, id, None,
                                  FALSE, TRUE, None, {})
               \/ /\ last_call' = Call("delete", None, None, None, id, None,
                                  TRUE, FALSE, None, {})
                  /\ UNCHANGED vectors
          ELSE /\ last_call' = Call("delete", None, None, None, id, None,
                               TRUE, FALSE, None, {})
               /\ UNCHANGED vectors
    /\ UNCHANGED <<next_vector_id, notCrudVars>>

CrudNext ==
    \/ AddMemoryCall
    \/ GetMemoriesCall
    \/ SearchMemoriesCall
    \/ UpdateMemoryCall
    \/ DeleteMemoryCall

-----------------------------------------------------------------------------
(* The model config endpoints: each handler runs its statements one after  *)
(* the other, each committed on its own.                                   *)

\* Number of users.
MaxUsers == 2

\* Largest number of model configs inserted in a run of the model.
MaxConfigs == 2

UserIds == 1..MaxUsers

\* models.py:14-36  MODEL_PROVIDERS: the models of each provider (an empty
\* list puts no condition on the model name).
Providers == {"deepseek", "openai"}

ModelsOf(provider) ==
    IF provider = "deepseek" THEN {"deepseek-chat", "deepseek-coder"} ELSE {}

\* The model names of the requests.
ModelNames == {"deepseek-chat", "deepseek-coder"}

\* The is_default of a request: absent (None), false or true.
DefaultFlags == {"<None>", "false", "true"}

\* A row of user_model_configs (core/db.py:80-93).
ConfigRow(id, uid, provider, model_name, is_default) ==
    [id |-> id, user_id |-> uid, provider |-> provider,
     model_name |-> model_name, is_default |-> is_default]

\* UPDATE user_model_configs SET is_default = 0 WHERE user_id = ?
\* (models.py:112-115, 258-261)
ClearDefaults(rows, uid) ==
    {IF row.user_id = uid THEN [row EXCEPT !.is_default = 0] ELSE row :
        row \in rows}

\* ... WHERE user_id = ? AND id != ?  (models.py:190-193)
ClearOtherDefaults(rows, uid, id) ==
    {IF row.user_id = uid /\ row.id # id
     THEN [row EXCEPT !.is_default = 0] ELSE row : row \in rows}

\* core/db.py:91  UNIQUE(user_id, provider, model_name): the row would
\* repeat the key of another row.
Duplicate(rows, new) ==
    \E row \in rows :
        /\ row.id # new.id
        /\ row.user_id = new.user_id
        /\ row.provider = new.provider
        /\ row.model_name = new.model_name

\* core/utils.py:60-73  verify_resource_ownership
Owns(rows, uid, id) == \E row \in rows : row.id = id /\ row.user_id = uid

RowOf(rows, id) == CHOOSE row \in rows : row.id = id

Response(op, uid, status) == [op |-> op, user_id |-> uid, status |-> status]

ModelsIdle ==
    /\ user_model_configs = {}
    /\ next_config_id = 1
    /\ response = Response("none", 0, 0)

ModelsInit == ModelsIdle

\* models.py:70-134  create_model_config
create_model_config ==
    /\ next_config_id <= MaxConfigs
    /\ \E uid \in UserIds, provider \in Providers, model_name \in ModelNames,
          flag \in DefaultFlags :
          LET is_default == flag = "true"
              cleared == IF is_default
                         THEN ClearDefaults(user_model_configs, uid)
                         ELSE user_model_configs
              new == ConfigRow(next_config_id, uid, provider, model_name,
                               IF is_default THEN 1 ELSE 0)
          IN  IF ModelsOf(provider) # {} /\ model_name \notin ModelsOf(provider)
              THEN /\ response' = Response("create", uid, 400)
                   /\ UNCHANGED <<user_model_configs, next_config_id>>
              ELSE IF Duplicate(cleared, new)
              THEN /\ user_model_configs' = cleared
                   /\ response' = Response("create", uid, 409)
                   /\ UNCHANGED next_config_id
              ELSE /\ user_model_configs' = cleared \cup {new}
                   /\ next_config_id' = next_config_id + 1
                   /\ response' = Response("create", uid, 200)
    /\ UNCHANGED notModelsVars

\* models.py:136-232  update_model_config
update_model_config ==
    /\ \E uid \in UserIds, id \in 1..MaxConfigs,
          new_provider \in Providers \cup {None},
          new_model_name \in ModelNames \cup {None},
          flag \in DefaultFlags :
          IF ~Owns(user_model_configs, uid, id)
          THEN /\ response' = Response("update", uid, 404)
               /\ UNCHANGED user_model_configs
          ELSE LET existing == RowOf(user_model_configs, id)
                   provider == IF new_provider # None
                               THEN new_provider ELSE existing.provider
                   model_name == IF new_model_name # None
                                 THEN new_model_name ELSE existing.model_name
                   cleared == IF flag = "true"
                              THEN ClearOtherDefaults(user_model_configs,
                                                      uid, id)
                              ELSE user_model_configs
                   updated ==
                       [existing EXCEPT
                          !.provider = provider,
                          !.model_name = IF model_name \in ModelsOf(provider)
                                         THEN model_name ELSE @,
                          !.is_default = IF flag = "<None>" THEN @
                                         ELSE IF flag = "true" THEN 1 ELSE 0]
               IN  IF ModelsOf(provider) # {}
                      /\ model_name \notin ModelsOf(provider)
                   THEN /\ response' = Response("update", uid, 400)
                        /\ UNCHANGED user_model_configs
                   ELSE IF Duplicate(cleared, updated)
                   THEN /\ user_model_configs' = cleared
                        /\ response' = Response("update", uid, 500)
                   ELSE /\ user_model_configs' =
                              (cleared \ {existing}) \cup {updated}
                        /\ response' = Response("update", uid, 200)
    /\ UNCHANGED <<next_config_id, notModelsVars>>

\* models.py:234-247  delete_model_config
delete_model_config ==
    /\ \E uid \in UserIds, id \in 1..MaxConfigs :
          IF ~Owns(user_model_configs, uid, id)
          THEN /\ response' = Response("delete", uid, 404)
               /\ UNCHANGED user_model_configs
          ELSE /\ user_model_configs' =
                     {row \in user_model_configs : row.id # id}
               /\ response' = Response("delete", uid, 200)
    /\ UNCHANGED <<next_config_id, notModelsVars>>

\* models.py:249-271  set_default_model_config
set_default_model_config ==
    /\ \E uid \in UserIds, id \in 1..MaxConfigs :
          IF ~Owns(user_model_configs, uid, id)
          THEN /\ response' = Response("set_default", uid, 404)
               /\ UNCHANGED user_model_configs
          ELSE /\ user_model_configs' =
                     {IF row.id = id THEN [row EXCEPT !.is_default = 1]
                      ELSE row :
                         row \in ClearDefaults(user_model_configs, uid)}
               /\ response' = Response("set_default", uid, 200)
    /\ UNCHANGED <<next_config_id, notModelsVars>>

ModelsNext ==
    \/ create_model_config
    \/ update_model_config
    \/ delete_model_config
    \/ set_default_model_config

-----------------------------------------------------------------------------
(* The user-scoped endpoints and their ownership checks. Each handler is    *)
(* one step here: ids are AUTOINCREMENT and never reused, and no statement  *)
(* changes the user_id of a conversation or the role of a message, so what  *)
(* a check found still holds when the statements after it run.              *)

\* Largest number of rows the requests insert, into `messages` and
\* `memories` together.
MaxRows == 2

\* The content of a send request, of a reply and of an edit, after strip().
SentContent == <<1>>

ReplyContent == <<2>>

EditedContent == <<3>>

\* A row of `conversations` (core/db.py:33-44) with its owner.
OwnedRow(uid, title, count) ==
    [exists |-> TRUE, user_id |-> uid, title |-> title,
     message_count |-> count]

NoOwnedRow == [exists |-> FALSE, user_id |-> 0, title |-> <<>>,
               message_count |-> 0]

\* A row of `memories` (core/db.py:59-75).
MemoryRow(id, uid, cid) == [id |-> id, user_id |-> uid, conversation_id |-> cid]

\* utils.py:60-73  SELECT id FROM conversations WHERE id = ? AND user_id = ?
verify_resource_ownership(rows, resource_id, uid) ==
    /\ resource_id \in DOMAIN rows
    /\ rows[resource_id].exists
    /\ rows[resource_id].user_id = uid

\* chat.py:300-303, 327-330
\* SELECT * FROM messages WHERE id = ? AND conversation_id = ?
FindMessage(rows, id, cid) ==
    LET Hit(row) == row.id = id /\ row.conversation_id = cid
    IN  SelectSeq(rows, Hit)

\* chat.py:310-313  UPDATE messages SET content = ? WHERE id = ?
UpdateRow(rows, id, content) ==
    [i \in 1..Len(rows) |->
        IF rows[i].id = id THEN [rows[i] EXCEPT !.content = content]
        ELSE rows[i]]

\* The role check that lets every message pass.
EditableAnyRole(row) == TRUE

\* chat.py:308  if message[0]['role'] != 'user'
Editable(row) == row.role = "user"

\* memories.py:22-24  the run_id of the list request
RunIdOf(conversation_id_arg) ==
    IF Truthy(conversation_id_arg) /\ conversation_id_arg # "0"
    THEN conversation_id_arg ELSE None

\* The request handled and its answer: `check` is none | passed | failed,
\* the outcome of verify_resource_ownership('conversations', ...) when the
\* handler ran it; run_id is the run_id of the manager call the handler (or
\* its agent) made, None when it made none.
Answered(op, uid, cid, message_id, check, status, run_id) ==
    [op |-> op, user_id |-> uid, conversation_id |-> cid,
     message_id |-> message_id, check |-> check, status |-> status,
     run_id |-> run_id]

NoAnswer == Answered("none", 0, 0, 0, "none", "none", None)

AccessIdle ==
    /\ owned = [c \in ConversationIds |-> NoOwnedRow]
    /\ message_rows = <<>>
    /\ next_row_id = 1
    /\ memory_rows = <<>>
    /\ last_answer = NoAnswer

\* The users own the conversations in turn; at most one id has no row.
OwnerOf(c) == ((c - 1) % MaxUsers) + 1

AccessInit ==
    /\ \E missing \in {0} \cup ConversationIds :
          owned = [c \in ConversationIds |->
                     IF c = missing THEN NoOwnedRow
                     ELSE OwnedRow(OwnerOf(c), DefaultTitle, 0)]
    /\ message_rows = <<>>
    /\ next_row_id = 1
    /\ memory_rows = <<>>
    /\ last_answer = NoAnswer

AccessTablesUnchanged ==
    UNCHANGED <<owned, message_rows, next_row_id, memory_rows>>

\* chat.py:135-156  GET /conversations/<id>/messages
GetMessagesRequest ==
    /\ last_answer = NoAnswer
    /\ \E u \in UserIds, c \in ConversationIds :
       /\ last_answer' =
             IF verify_resource_ownership(owned, c, u)
             THEN Answered("get_messages", u, c, 0, "passed", "ok", None)
             ELSE Answered("get_messages", u, c, 0, "failed", "not_found",
                           None)
       /\ AccessTablesUnchanged
       /\ UNCHANGED notAccessVars

\* chat.py:158-210, 212-280  POST /conversations/<id>/messages[/stream]:
\* the user row, the agent (whose local tools call the manager with
\* run_id = str(conversation_id), agent_service.py:294-299), the assistant
\* row, the metadata and the title. A reply of None raises at the assistant
\* row (NOT NULL, core/db.py:52; len(None), chat.py:257).
SendMessageRequest ==
    /\ last_answer = NoAnswer
    /\ \E u \in UserIds, c \in ConversationIds, content \in {<<>>, SentContent},
       op \in {"send_message", "send_message_stream"}, reply \in BOOLEAN,
       tool \in BOOLEAN :
       LET run == IF tool THEN Str(c) ELSE None
           user_row == MessageRow(next_row_id, c, "user", content)
           assistant_row ==
               MessageRow(next_row_id + 1, c, "assistant", ReplyContent)
       IN
       IF content = <<>>
       THEN /\ last_answer' = Answered(op, u, c, 0, "none", "validation_error",
                                    None)
            /\ AccessTablesUnchanged
            /\ UNCHANGED notAccessVars
       ELSE IF ~verify_resource_ownership(owned, c, u)
       THEN /\ last_answer' = Answered(op, u, c, 0, "failed", "not_found", None)
            /\ AccessTablesUnchanged
            /\ UNCHANGED notAccessVars
       ELSE /\ next_row_id + 1 + Len(memory_rows) <= MaxRows
            /\ IF reply
               THEN /\ message_rows' =
                          message_rows \o <<user_row, assistant_row>>
                    /\ next_row_id' = next_row_id + 2
                    /\ owned' =
                          [owned EXCEPT
                             ![c].message_count = @ + 2,
                             ![c].title = IF NeedsTitle(@)
                                          THEN AutoTitle(content) ELSE @]
                    /\ last_answer' = Answered(op, u, c, 0, "passed", "ok", run)
               ELSE /\ message_rows' = Append(message_rows, user_row)
                    /\ next_row_id' = next_row_id + 1
                    /\ owned' = owned
                    /\ last_answer' =
                          Answered(op, u, c, 0, "passed", "error", run)
            /\ UNCHANGED <<memory_rows, notAccessVars>>

\* chat.py:282-317  PUT /conversations/<id>/messages/<id>
UpdateMessageRequest ==
    /\ last_answer = NoAnswer
    /\ \E u \in UserIds, c \in ConversationIds, m \in 1..MaxRows,
       content \in {<<>>, EditedContent} :
       LET message == FindMessage(message_rows, m, c)
           Ans(check, status) ==
               Answered("update_message", u, c, m, check, status, None)
       IN
       /\ IF ~verify_resource_ownership(owned, c, u)
          THEN /\ last_answer' = Ans("failed", "not_found")
               /\ message_rows' = message_rows
          ELSE IF content = <<>>
          THEN /\ last_answer' = Ans("passed", "validation_error")
               /\ message_rows' = message_rows
          ELSE IF message = <<>>
          THEN /\ last_answer' = Ans("passed", "not_found")
               /\ message_rows' = message_rows
          ELSE IF ~Editable(message[1])
          THEN /\ last_answer' = Ans("passed", "forbidden")
               /\ message_rows' = message_rows
          ELSE /\ last_answer' = Ans("passed", "ok")
               /\ message_rows' = UpdateRow(message_rows, m, content)
       /\ UNCHANGED <<owned, next_row_id, memory_rows, notAccessVars>>

\* chat.py:319-342  DELETE /conversations/<id>/messages/<id>
DeleteMessageRequest ==
    /\ last_answer = NoAnswer
    /\ \E u \in UserIds, c \in ConversationIds, m \in 1..MaxRows :
       LET message == FindMessage(message_rows, m, c)
           Ans(check, status) ==
               Answered("delete_message", u, c, m, check, status, None)
       IN
       /\ IF ~verify_resource_ownership(owned, c, u)
          THEN /\ last_answer' = Ans("failed", "not_found")
               /\ UNCHANGED <<message_rows, owned>>
          ELSE IF message = <<>>
          THEN /\ last_answer' = Ans("passed", "not_found")
               /\ UNCHANGED <<message_rows, owned>>
          ELSE /\ last_answer' = Ans("passed", "ok")
               /\ message_rows' = DeleteRow(message_rows, m)
               /\ owned' = [owned EXCEPT ![c].message_count = @ - 1]
       /\ UNCHANGED <<next_row_id, memory_rows, notAccessVars>>

\* memories.py:14-75  GET /memories?conversation_id=...: the handler calls
\* memory_manager.get_memories(user_id, run_id) and runs no ownership check.
GetMemoriesRequest ==
    /\ last_answer = NoAnswer
    /\ \E u \in UserIds,
       arg \in {None, "0"} \cup {Str(c) : c \in ConversationIds} :
       LET named == {c \in ConversationIds : Str(c) = arg}
           cid == IF named = {} THEN 0 ELSE CHOOSE c \in named : TRUE
       IN
       /\ last_answer' =
             Answered("get_memories", u, cid, 0, "none", "ok", RunIdOf(arg))
       /\ AccessTablesUnchanged
       /\ UNCHANGED notAccessVars

\* memories.py:77-149  POST /memories: cid = 0 stands for a request without
\* conversation_id; sync_memory (agent_service.py:358) does nothing.
CreateMemoryRequest ==
    /\ last_answer = NoAnswer
    /\ \E u \in UserIds, cid \in {0} \cup ConversationIds, valid \in BOOLEAN :
       LET Ans(check, status) ==
               Answered("create_memory", u, cid, 0, check, status, None)
       IN
       /\ IF ~valid
          THEN /\ last_answer' = Ans("none", "validation_error")
               /\ memory_rows' = memory_rows
          ELSE IF cid # 0 /\ ~verify_resource_ownership(owned, cid, u)
          THEN /\ last_answer' = Ans("failed", "not_found")
               /\ memory_rows' = memory_rows
          ELSE /\ next_row_id + Len(memory_rows) <= MaxRows
               /\ last_answer' =
                     Ans(IF cid # 0 THEN "passed" ELSE "none", "ok")
               /\ memory_rows' =
                     Append(memory_rows,
                            MemoryRow(Len(memory_rows) + 1, u, cid))
       /\ UNCHANGED <<owned, message_rows, next_row_id, notAccessVars>>

\* memories.py:243-270  POST /memories/search: agent_service.search_memories
\* (agent_service.py:357) returns [] and calls nothing.
SearchMemoriesRequest ==
    /\ last_answer = NoAnswer
    /\ \E u \in UserIds, cid \in {0} \cup ConversationIds, query \in BOOLEAN :
       LET Ans(check, status) ==
               Answered("search_memories", u, cid, 0, check, status, None)
       IN
       /\ last_answer' =
             IF ~query \/ cid = 0
             THEN Ans("none", "validation_error")
             ELSE IF ~verify_resource_ownership(owned, cid, u)
             THEN Ans("failed", "not_found")
             ELSE Ans("passed", "ok")
       /\ AccessTablesUnchanged
       /\ UNCHANGED notAccessVars

\* utils.py:13-29  the response is returned; the next request is handled.
Responds ==
    /\ last_answer # NoAnswer
    /\ last_answer' = NoAnswer
    /\ AccessTablesUnchanged
    /\ UNCHANGED notAccessVars

AccessNext ==
    \/ GetMessagesRequest
    \/ SendMessageRequest
    \/ UpdateMessageRequest
    \/ DeleteMessageRequest
    \/ GetMemoriesRequest
    \/ CreateMemoryRequest
    \/ SearchMemoriesRequest
    \/ Responds

-----------------------------------------------------------------------------
(* Specifications                                                          *)

Init ==
    /\ AgentInit
    /\ DeleteIdle
    /\ ScopeIdle
    /\ ManagerIdle
    /\ StreamIdle
    /\ ChatIdle
    /\ CrudIdle
    /\ ModelsIdle
    /\ AccessIdle

Next ==
    \/ NoClient
    \/ Assemble
    \/ LLMRaises
    \/ LLMAnswers
    \/ LLMToolCalls
    \/ ToolFinishes
    \/ JoinNext
    \/ TurnEnds
    \/ TimesOut

Spec == Init /\ [][Next]_vars

\* The runs whose tool calls carry a content argument: the arguments text
\* decides the string a tool execution returns, not whether it returns.
FairInit ==
    /\ AgentInit
    /\ tool_arguments = "{\"content\": \"x\"}"
    /\ DeleteIdle
    /\ ScopeIdle
    /\ ManagerIdle
    /\ StreamIdle
    /\ ChatIdle
    /\ CrudIdle
    /\ ModelsIdle
    /\ AccessIdle

\* chat_agent under the proviso that the calling thread and the worker
\* threads keep running: every LLM call and every tool execution returns or
\* raises, so a step that can be taken is taken.
FairSpec == FairInit /\ [][Next]_vars /\ WF_vars(Next)

DeleteSpecInit ==
    /\ DeleteInit
    /\ AgentIdle
    /\ ScopeIdle
    /\ ManagerIdle
    /\ StreamIdle
    /\ ChatIdle
    /\ CrudIdle
    /\ ModelsIdle
    /\ AccessIdle

DeleteSpec == DeleteSpecInit /\ [][DeleteNext]_vars

ScopeSpecInit ==
    /\ ScopeInit
    /\ AgentIdle
    /\ DeleteIdle
    /\ ManagerIdle
    /\ StreamIdle
    /\ ChatIdle
    /\ CrudIdle
    /\ ModelsIdle
    /\ AccessIdle

ScopeSpec == ScopeSpecInit /\ [][ScopeNext]_vars

ManagerSpecInit ==
    /\ ManagerInit
    /\ AgentIdle
    /\ DeleteIdle
    /\ ScopeIdle
    /\ StreamIdle
    /\ ChatIdle
    /\ CrudIdle
    /\ ModelsIdle
    /\ AccessIdle

ManagerSpec == ManagerSpecInit /\ [][ManagerNext]_vars

ManagerSeqSpec == ManagerSpecInit /\ [][ManagerSeqNext]_vars

StreamSpecInit ==
    /\ StreamInit
    /\ AgentIdle
    /\ DeleteIdle
    /\ ScopeIdle
    /\ ManagerIdle
    /\ ChatIdle
    /\ CrudIdle
    /\ ModelsIdle
    /\ AccessIdle

StreamSpec == StreamSpecInit /\ [][StreamNext]_vars

\* The generator while other requests send on the same conversation.
StreamRaceSpec == StreamSpecInit /\ [][StreamNext \/ OtherSendInserts]_vars

ChatSpecInit ==
    /\ ChatInit
    /\ AgentIdle
    /\ DeleteIdle
    /\ ScopeIdle
    /\ ManagerIdle
    /\ StreamIdle
    /\ CrudIdle
    /\ ModelsIdle
    /\ AccessIdle

ChatSpec == ChatSpecInit /\ [][ChatNext]_vars

CrudSpecInit ==
    /\ CrudInit
    /\ AgentIdle
    /\ DeleteIdle
    /\ ScopeIdle
    /\ ManagerIdle
    /\ StreamIdle
    /\ ChatIdle
    /\ ModelsIdle
    /\ AccessIdle

CrudSpec == CrudSpecInit /\ [][CrudNext]_vars

ModelsSpecInit ==
    /\ ModelsInit
    /\ AgentIdle
    /\ DeleteIdle
    /\ ScopeIdle
    /\ ManagerIdle
    /\ StreamIdle
    /\ ChatIdle
    /\ CrudIdle
    /\ AccessIdle

ModelsSpec == ModelsSpecInit /\ [][ModelsNext]_vars

AccessSpecInit ==
    /\ AccessInit
    /\ AgentIdle
    /\ DeleteIdle
    /\ ScopeIdle
    /\ ManagerIdle
    /\ StreamIdle
    /\ ChatIdle
    /\ CrudIdle
    /\ ModelsIdle

AccessSpec == AccessSpecInit /\ [][AccessNext]_vars

-----------------------------------------------------------------------------
(* Properties                                                              *)

\* The position of the assistant message that opens the turn in progress.
IsOpenTurn(p) ==
    /\ pc = "join"
    /\ \A q \in (p + 1)..Len(messages) : messages[q].role # "assistant"

\* C1: every assistant message with tool calls T1..Tn is followed directly by
\* the tool messages of T1..Tn, in that order and nothing else before the next
\* assistant message: all n of them once the turn is over, a prefix of them
\* while the turn's results are being appended, whatever order the tool
\* executions finished in.
C1_ToolResultsInCallOrder ==
    \A p \in 1..Len(messages) :
        messages[p].role = "assistant" =>
            LET T == messages[p].tool_calls
                n == Len(T)
            IN  /\ \A j \in 1..n :
                      p + j <= Len(messages) =>
                          /\ messages[p + j].role = "tool"
                          /\ messages[p + j].tool_call_id = T[j]
                /\ ~IsOpenTurn(p) => Len(messages) >= p + n
                /\ Len(messages) > p + n => messages[p + n + 1].role = "assistant"

\* A turn with two tool calls whose second call finished first and whose two
\* results have both been appended.
C1_Witness ==
    /\ pc = "join"
    /\ Len(futures) >= 2
    /\ Len(completed) >= 2
    /\ completed[1] = 2
    /\ completed[2] = 1
    /\ joined = Len(futures)

\* C2: chat_agent never makes more than 5 LLM calls, and a run whose 5 turns
\* all carried tool calls has made exactly 5 calls and returns the timeout
\* string.
C2_AtMostFiveLLMCalls ==
    /\ llm_calls <= 5
    /\ (pc = "done" /\ current_turn >= 5) =>
           (result = TimeoutReply /\ llm_calls = 5 /\ current_turn = 5)

\* A run that returned the timeout string after 5 turns with tool calls.
C2_Witness ==
    /\ pc = "done"
    /\ result = TimeoutReply
    /\ current_turn = 5
    /\ llm_calls = 5

\* The graph_reset records the tool run left in each of its two namespaces.
GlobalResets == ResetRecords(store, NsOf(user_id, conversation_id, "global"))

LocalResets == ResetRecords(store, NsOf(user_id, conversation_id, "local"))

HasResidueCandidate ==
    \E i \in 1..Len(candidates) : candidates[i].id = GraphOnly

\* C3: a delete_memory run that returned its success string either wrote no
\* reset record, or wrote exactly one into the global namespace and exactly
\* one into the local namespace, both with the same text.
C3_ResetParity ==
    (dpc = "done" /\ tool_result = SuccessResult) =>
        \/ GlobalResets = {} /\ LocalResets = {}
        \/ /\ Cardinality(GlobalResets) = 1
           /\ Cardinality(LocalResets) = 1
           /\ {r.text : r \in GlobalResets} = {r.text : r \in LocalResets}

\* C4: a delete_memory run that returned its success string after deleting a
\* record, or after gathering a graph_only candidate, entered the graph reset,
\* whatever ids the reviewer returned.
C4_ResetWhenDeletedOrResidue ==
    (dpc = "done" /\ tool_result = SuccessResult
        /\ (Len(deleted_contents) > 0 \/ HasResidueCandidate))
    => reset_started

\* C5: a delete_memory run whose candidates are all vector hits and that
\* deleted nothing wrote no record to the memory store.
C5_NoWriteWithoutDeleteOrResidue ==
    (dpc = "done" /\ Len(deleted_contents) = 0 /\ ~HasResidueCandidate)
    => \A r \in store : r.type # "graph_reset"

\* C6: every add and search call the manager hands to the adapter carries no
\* run parameter; its namespace is user_id for scope global, whatever run_id
\* was supplied, and user_id + "_conv_" + run_id for scope local.
C6_ScopeRouting ==
    \A c \in adapter_calls :
        /\ ~c.params.has_run_id
        /\ c.scope = "global" => c.params.user_id = c.user_id
        /\ c.scope = "local" => c.params.user_id = c.user_id \o "_conv_" \o c.run_id

\* A global add that was given a run_id, and a local search.
C6_Witness ==
    /\ \E c \in adapter_calls :
          c.op = "add" /\ c.scope = "global" /\ c.run_id \in DbIds
    /\ \E c \in adapter_calls : c.op = "search" /\ c.scope = "local"

\* The namespaces of two adapter calls do not clash: a global and a local one
\* differ, and two local ones are equal only for the same user and run.
Disjoint(a, b) ==
    /\ (a.scope = "global" /\ b.scope = "local")
          => a.params.user_id # b.params.user_id
    /\ (a.scope = "local" /\ b.scope = "local"
          /\ a.params.user_id = b.params.user_id)
          => (a.user_id = b.user_id /\ a.run_id = b.run_id)

\* A call whose user id, and whose run id if the scope is local, is str() of a
\* database id.
FromDbIds(c) ==
    /\ c.user_id \in DbIds
    /\ c.scope = "local" => c.run_id \in DbIds

\* C7 as stated: the namespaces of any two calls the manager accepts are
\* disjoint.
C7_DisjointForAllIds ==
    \A a, b \in adapter_calls : Disjoint(a, b)

\* C7 as amended: the namespaces of any two calls whose user ids and
\* conversation ids are decimal renderings of database ids are disjoint.
C7_DisjointForDbIds ==
    \A a, b \in adapter_calls :
        (FromDbIds(a) /\ FromDbIds(b)) => Disjoint(a, b)

\* A global call and a local call of two different users on conversations
\* with the same number, all with database ids.
C7_Witness ==
    \E a, b \in adapter_calls :
        /\ FromDbIds(a) /\ FromDbIds(b)
        /\ a.scope = "local" /\ b.scope = "local"
        /\ a.user_id # b.user_id
        /\ a.run_id = b.run_id

\* The add_memory calls of thread t that are over.
AddDone(t) == thr[t].op = "add" /\ thr[t].pc = "idle"

\* C8: an add_memory call makes at most 2 add attempts, the second one only
\* after a 404 of the first; a failure of the second attempt propagates;
\* after a successful second attempt the cache maps the fingerprint to the
\* adapter the call rebuilt.
C8_CacheHoldsRebuiltAdapter ==
    \A t \in Threads :
        thr[t].op = "add" =>
            /\ Len(thr[t].tries) <= 2
            /\ Len(thr[t].tries) = 2 => thr[t].tries[1] = "404"
            /\ (AddDone(t) /\ Len(thr[t].tries) = 2 /\ thr[t].tries[2] # "ok")
                  => thr[t].outcome = "raised"
            /\ (AddDone(t) /\ thr[t].tries = <<"404", "ok">>)
                  => /\ thr[t].outcome = "ok"
                     /\ clients[thr[t].config_hash] = thr[t].client

\* C9: while nothing is evicted, the threads that asked for the adapter of
\* one fingerprint hold the same adapter, and every adapter that was
\* constructed is the cached adapter of a fingerprint (none was constructed
\* twice for one fingerprint).
C9_OneAdapterPerFingerprint ==
    evictions = 0 =>
        /\ \A t, u \in Threads :
              (thr[t].client # 0 /\ thr[u].client # 0
                  /\ thr[t].config_hash = thr[u].config_hash)
              => thr[t].client = thr[u].client
        /\ built <= Cardinality({h \in Fingerprints : clients[h] # 0})

\* C10: while nothing is evicted, the calls a thread makes with one
\* llm_settings dict construct at most one adapter, and calls without
\* settings use the key "default".
C10_ConstructedOncePerSettings ==
    /\ evictions = 0 => built <= 1
    /\ \A t \in Threads :
          (thr[t].config_hash # "" /\ ~llm_settings[uses[t]].given)
          => thr[t].config_hash = "default"

\* The tool messages of the run.
ToolMessages == {p \in 1..Len(messages) : messages[p].role = "tool"}

\* The strings a tool execution may yield.
ToolStrings ==
    {NoMatchResult, SuccessResult, NotInitialisedResult, UnknownToolResult}
    \cup {AddedResult(sc) : sc \in {"local", "global"}}
    \cup {SearchResult(sc) : sc \in {"local", "global"}}
    \cup {ToolError(e) : e \in {"KeyError", "TypeError", "memory"}}

\* The tool message appended for future i of the turn in progress.
JoinedMsg(i) == messages[Len(messages) - joined + i]

\* C12: every finished tool execution yields a string, also when the memory
\* operation or the argument lookup raised; the string of every joined
\* future is the content of the tool message of its tool call; and the join
\* phase of a turn is never left by a return of chat_agent but only towards
\* the next LLM call.
C12_ToolFailureContained ==
    /\ [](\A i \in 1..Len(futures) :
            futures[i] # "running" => futures[i] \in ToolStrings)
    /\ [](\A p \in ToolMessages : messages[p].content \in ToolStrings)
    /\ [](pc = "join" =>
            \A i \in 1..joined :
                /\ JoinedMsg(i).content = futures[i]
                /\ JoinedMsg(i).tool_call_id =
                      messages[Len(messages) - joined].tool_calls[i])
    /\ [][pc = "join" => pc' \in {"join", "loop"}]_vars
    /\ [][(pc = "join" /\ pc' = "loop") =>
              (joined = Len(futures) /\ result' = "none")]_vars

\* A run in which a tool execution failed, its error string was appended as
\* a tool message, and a later LLM call was made.
C12_Witness ==
    /\ \E p \in ToolMessages :
          messages[p].content \in {ToolError(e) : e \in {"KeyError", "TypeError", "memory"}}
    /\ llm_calls >= 2
    /\ result = "answer"

\* C13: once an LLM call has raised, chat_agent has returned the error
\* string: no tool execution is running or unjoined, and no step makes a
\* further LLM call, starts a tool execution or appends a message.
C13_LLMErrorStopsLoop ==
    /\ [](result = ErrorReply =>
            /\ pc = "done"
            /\ \A i \in 1..Len(futures) : futures[i] # "running"
            /\ joined = Len(futures))
    /\ [][result = ErrorReply =>
              UNCHANGED <<llm_calls, futures, messages, result, pc>>]_vars

\* An LLM call raised on a turn after a turn with tool calls.
C13_Witness ==
    /\ result = ErrorReply
    /\ pc = "done"
    /\ current_turn >= 1
    /\ llm_calls = current_turn + 1

\* C14: in a run whose tool calls carry arguments that are not valid JSON,
\* every tool execution gets the empty object: each finished future and each
\* tool message holds what _execute_tool returns for {}, and the turn goes on
\* to the next LLM call.
C14_MalformedArgumentsAsEmptyObject ==
    JsonLoads(tool_arguments).raised =>
        /\ \A i \in 1..Len(futures) :
              futures[i] # "running" =>
                  futures[i] = ExecuteTool(tool_name, EmptyObject, memory)
        /\ \A p \in ToolMessages :
              messages[p].content = ExecuteTool(tool_name, EmptyObject, memory)
        /\ pc = "done" => (joined = Len(futures) /\ result # "none")
        /\ result \notin {ExecuteTool(tool_name, EmptyObject, memory), Raised}

\* An add tool was called with arguments that are not JSON, its KeyError
\* string was appended, and the next LLM call answered.
C14_Witness ==
    /\ JsonLoads(tool_arguments).raised
    /\ tool_name \in AddTools
    /\ memory = "ok"
    /\ \E p \in ToolMessages : messages[p].content = ToolError("KeyError")
    /\ llm_calls >= 2
    /\ result = "answer"

\* C11 as stated, for the first manager call of a run (the cache was empty
\* before it): an add_memory call whose add raised an error without the 404
\* signature raised after one attempt and left the cache as it was before
\* the call.
C11_CacheAsBeforeTheCall ==
    \A t \in Threads :
        (started = 1 /\ AddDone(t) /\ thr[t].tries = <<"other">>)
        => /\ thr[t].outcome = "raised"
           /\ evictions = 0
           /\ \A h \in Fingerprints : clients[h] = 0

\* C11 as amended: an add_memory call whose first add raised an error
\* without the 404 signature makes no further attempt and raises, and the
\* step that handles the error leaves the cache, the settings and the
\* counts of constructed and evicted adapters as they were when add was
\* attempted.
C11_OtherErrorPropagates ==
    /\ [](\A t \in Threads :
            (thr[t].op = "add" /\ Len(thr[t].tries) >= 1
                /\ thr[t].tries[1] = "other")
            => /\ thr[t].tries = <<"other">>
               /\ thr[t].pc = "idle"
               /\ thr[t].outcome = "raised")
    /\ [][\A t \in Threads :
            (thr[t].tries = <<>> /\ thr'[t].tries = <<"other">>)
            => UNCHANGED <<clients, evictions, built, llm_settings>>]_vars

\* An add_memory call that constructed its adapter, whose add raised another
\* error, and whose adapter is still the cached one.
C11_Witness ==
    \E t \in Threads :
        /\ AddDone(t)
        /\ thr[t].tries = <<"other">>
        /\ thr[t].outcome = "raised"
        /\ evictions = 0
        /\ clients[thr[t].config_hash] = thr[t].client

\* The positions of the tool run at which an LLM call of the tool (reviewer,
\* neutralizer) or a write to the store lies ahead or is under way.
PastGather == {"review", "delete", "neutralize", "add_global", "add_local"}

\* C15: a run of the delete_memory tool returns the no-match string only
\* when its two searches gathered no candidate, and then it reached no
\* reviewer or neutralizing call and no delete or add; a run whose searches
\* end without a candidate and without an exception returns that string; no
\* step changes the store or reaches the reviewer unless a candidate was
\* gathered.
C15_NoMatchNoWrites ==
    /\ [](tool_result = NoMatchResult =>
            /\ dpc = "done"
            /\ candidates = <<>>
            /\ ids_to_delete = <<>>
            /\ del_idx = 0
            /\ deleted_contents = <<>>
            /\ neutral_statement = None
            /\ ~reset_started)
    /\ [](dpc \in PastGather => Len(candidates) > 0)
    /\ [][Len(candidates') >= Len(candidates)]_vars
    /\ [][(store' # store \/ relations' # relations) => Len(candidates) > 0]_vars
    /\ [][(dpc = "search_global" /\ dpc' # "search_global"
              /\ candidates' = <<>> /\ tool_result' # ToolErrorResult)
           => (dpc' = "done" /\ tool_result' = NoMatchResult)]_vars

\* A run that returned the no-match string although the store holds a
\* record of the user (the searches did not find it).
C15_Witness ==
    /\ dpc = "done"
    /\ tool_result = NoMatchResult
    /\ store # {}

\* The ids of ids_to_delete the delete loop has walked that satisfy P.
Walked(P(_)) == {k \in 1..del_idx : P(ids_to_delete[k])}

NotGraphOnly(mem_id) == mem_id # GraphOnly

NamesVectorCandidate(mem_id) ==
    mem_id # GraphOnly /\ HasTarget(candidates, mem_id)

\* C16 as stated: the manager's delete has been called once for every
\* walked id that is not graph_only (each call that returned appended one
\* entry to deleted_contents).
C16_EveryReturnedIdDeleted ==
    Len(deleted_contents) = Cardinality(Walked(NotGraphOnly))

\* C16 as amended: the manager's delete has been called once for every
\* walked id that is not graph_only and is the id of a gathered candidate,
\* in the order returned, and for no other id: not for graph_only and not
\* for an id that names no candidate; the records so named are gone from
\* the store.
C16_EveryCandidateIdDeleted ==
    /\ Len(deleted_contents) = Cardinality(Walked(NamesVectorCandidate))
    /\ \A k \in Walked(NamesVectorCandidate) :
          /\ deleted_contents[Cardinality({j \in Walked(NamesVectorCandidate) : j <= k})]
                = Target(candidates, ids_to_delete[k]).content
          /\ \A r \in store : r.id # ids_to_delete[k]
    /\ \A j \in 1..Len(deleted_contents) :
          \A i \in 1..Len(candidates) :
              candidates[i].id = GraphOnly => deleted_contents[j] # candidates[i].content

\* The delete loop walked an id that names no candidate, the synthetic id,
\* or both, next to an id it deleted.
C16_Witness ==
    /\ del_idx = Len(ids_to_delete)
    /\ del_idx = 2
    /\ Len(deleted_contents) = 1
    /\ \E k \in 1..del_idx : ~HasTarget(candidates, ids_to_delete[k])

\* The terminal events of a stream.
Terminal == {"done", "error"}

\* The shape every stream has while and after it is produced: a
\* user_message event occurs nowhere but first and a terminal event nowhere
\* but last, and a generator that ran to its end has yielded a terminal
\* event.
TokensThenOneTerminal ==
    /\ \A i \in 2..Len(events) : events[i].type # "user_message"
    /\ \A i \in 1..(Len(events) - 1) : events[i].type \notin Terminal
    /\ spc = "done" =>
          (Len(events) >= 1 /\ events[Len(events)].type \in Terminal)

\* C17 as stated: the first event of every stream is the user_message
\* event, token events follow, and one terminal event, done or error, ends
\* the stream.
C17_UserMessageFirst ==
    /\ TokensThenOneTerminal
    /\ Len(events) >= 1 => events[1].type = "user_message"

\* C17 as amended: a stream whose user message was persisted starts with the
\* user_message event of that message, followed by token events and one
\* terminal event; a stream whose user message could not be persisted is the
\* single event error.
C17_UserMessageFirstWhenSaved ==
    /\ TokensThenOneTerminal
    /\ user_message_id # 0 =>
          (Len(events) >= 1
              /\ events[1] = UserMessageEvent(user_message_id, UserContent))
    /\ (user_message_id = 0 /\ Len(events) >= 1) =>
          (events = <<ErrorEvent>> /\ failed)

\* A stream that ran to its end: user_message, three token events, done.
C17_Witness ==
    /\ spc = "done"
    /\ Len(events) = 5
    /\ events[1].type = "user_message"
    /\ \A i \in 2..4 : events[i].type = "token"
    /\ events[5].type = "done"

IsToken(e) == e.type = "token"

\* The token events of the stream, in emission order.
Tokens == SelectSeq(events, IsToken)

RECURSIVE Concat(_)
\* The concatenation of the contents of a sequence of events.
Concat(evts) ==
    IF evts = <<>> THEN <<>> ELSE Head(evts).content \o Concat(Tail(evts))

\* The assistant message of the turn is in the table.
AssistantSaved ==
    /\ user_message_id # 0
    /\ Len(table) = user_message_id + 1
    /\ table[Len(table)].role = "assistant"

\* C18: the i-th token event carries the characters 10(i-1)+1 .. 10i of the
\* final text (fewer for the last one), so each carries 1 to 10 characters
\* and all but the last 10; once the assistant message is persisted there
\* are ceil(n/10) token events and their contents concatenate to the
\* persisted text.
C18_TokensPartitionFinalText ==
    /\ \A i \in 1..Len(Tokens) :
          /\ Tokens[i].content =
                SubSeq(final_content.text, 10 * (i - 1) + 1,
                       Min(10 * i, Len(final_content.text)))
          /\ Len(Tokens[i].content) \in 1..10
          /\ i < Len(Tokens) => Len(Tokens[i].content) = 10
    /\ AssistantSaved =>
          /\ Len(Tokens) = (Len(final_content.text) + 9) \div 10
          /\ Concat(Tokens) = final_content.text
          /\ table[Len(table)].content = final_content.text

\* A final text of 21 characters was emitted as three token events and
\* persisted.
C18_Witness ==
    /\ AssistantSaved
    /\ Len(final_content.text) = 21
    /\ Len(Tokens) = 3
    /\ Len(Tokens[3].content) = 1

\* The rows of the conversation that precede the just-saved user message.
Preceding == SubSeq(table, 1, user_message_id - 1)

\* C19: the history handed to chat_agent is the most recent 20 of the
\* messages that precede the just-saved user message (all of them when there
\* are at most 20).
C19_HistoryIsMostRecent20 ==
    spc \in {"agent", "tokens", "metadata"} =>
        LET k == Min(Len(Preceding), 20)
        IN  history =
              [j \in 1..k |->
                 [role |-> Preceding[Len(Preceding) - k + j].role,
                  content |-> Preceding[Len(Preceding) - k + j].content]]

\* C20: a generator that has ended, after it persisted the user message and
\* without an exception, has persisted the assistant message and updated
\* the metadata of the conversation, whether or not the client read on.
C20_TurnPersistedDespiteDisconnect ==
    (spc \in {"done", "closed"} /\ user_message_id # 0 /\ ~failed) =>
        /\ AssistantSaved
        /\ message_count = user_message_id + 1

\* C24: the reply of a user turn is never blank: whatever chat_agent
\* returns, on the answer path as on the error and timeout paths, is a
\* non-empty text.
C24_ReplyNeverBlank ==
    pc = "done" => result # ""

\* C21: when two sends run concurrently on one conversation, the user
\* message and the assistant message of a turn stay contiguous: once a send
\* has stored its assistant message, no row of the conversation lies between
\* its user message and its assistant message.
C21_PairsContiguous ==
    \A r \in Requests :
        reqs[r].pc \in {"metadata", "title"} =>
            \A k \in 1..Len(messages_table) :
                messages_table[k].conversation_id = reqs[r].conversation_id =>
                    ~ /\ reqs[r].user_message_id < messages_table[k].id
                      /\ messages_table[k].id < reqs[r].assistant_message_id

\* C22: a turn through the streaming endpoint that completes on a
\* conversation whose title is empty or the placeholder leaves the
\* conversation with the first 30 characters of the user message as title.
C22_StreamSetsTitle ==
    [][\A r \in Requests :
          ( /\ reqs[r].op = "stream"
            /\ reqs[r].pc = "metadata"
            /\ reqs'[r].pc = "done"
            /\ reqs'[r].status = "ok"
            /\ conversations[reqs[r].conversation_id].exists
            /\ NeedsTitle(conversations[reqs[r].conversation_id].title) )
          => conversations'[reqs[r].conversation_id].title =
                AutoTitle(reqs[r].content)]_vars

\* No request is in flight.
Quiescent == \A r \in Requests : reqs[r].pc \in {"idle", "done"}

\* C23: once the sends and the message deletions have ended, completed or
\* failed, message_count of every conversation is twice the number of its
\* stored exchanges minus the number of its manually deleted messages.
C23_MessageCount ==
    Quiescent =>
        \A c \in ConversationIds :
            conversations[c].exists =>
                conversations[c].message_count =
                    2 * exchanges[c] - manual_deletes[c]

\* C28: after a user deleted a conversation, its local memory namespace
\* holds no record.
C28_LocalMemoriesDeleted ==
    \A r \in Requests :
        ( /\ reqs[r].pc = "done"
          /\ reqs[r].op = "delete_conversation"
          /\ reqs[r].status = "ok" )
        => local_memories[reqs[r].conversation_id] = 0

\* C29: after a conversation was deleted, singly or by a batch delete, the
\* messages table holds no row of it.
C29_MessagesDeleted ==
    \A r \in Requests :
        ( /\ reqs[r].pc = "done"
          /\ reqs[r].op \in {"delete_conversation", "batch_delete"}
          /\ reqs[r].status = "ok" )
        => \A c \in Range(reqs[r].conversation_ids) :
              RowsOf(messages_table, c) = <<>>

\* The record was stored by add_memory(content, uid, run, scope) and rid is
\* what the claim reads it back with: run for a local scope, None for a
\* global one.
AddedFor(rec, uid, rid) ==
    /\ rec.metadata.real_user_id = uid
    /\ \/ /\ rec.metadata.scope = "local"
          /\ rec.metadata.source_conversation_id = rid
       \/ /\ rec.metadata.scope = "global"
          /\ rid = None

\* get_memories read the namespace of every record added for its arguments
\* and returned the record.
ReturnsAdded ==
    \A rec \in vectors :
        AddedFor(rec, last_call.user_id, last_call.run_id) =>
            /\ last_call.target = rec.user_id
            /\ Shown(rec) \in last_call.results

DeletedIds == (1..(next_vector_id - 1)) \ StoredIds(vectors)

\* C27: delete_memory(i) that succeeds removes the record i from the store,
\* and no get_memories or search_memories, on any namespace, returns a
\* record with a deleted id.
C27_DeletedNotReturned ==
    /\ [](last_call.op \in {"get", "search"} =>
             \A res \in last_call.results : res.id \notin DeletedIds)
    /\ [][(last_call'.op = "delete" /\ ~last_call'.raised) =>
             /\ last_call'.memory_id \in StoredIds(vectors)
             /\ last_call'.memory_id \notin StoredIds(vectors')]_vars

\* After a delete, a read returned the record that is left.
C27_Witness ==
    /\ last_call.op \in {"get", "search"}
    /\ last_call.answered
    /\ DeletedIds # {}
    /\ last_call.results # {}

\* The users that have at least one model config.
UsersWithConfigs == {row.user_id : row \in user_model_configs}

\* The default configs of a user.
DefaultsOf(uid) ==
    {row \in user_model_configs : row.user_id = uid /\ row.is_default = 1}

\* C30: after every create, update and set-default operation, each user
\* who has at least one model config has exactly one config with
\* is_default = 1.
C30_ExactlyOneDefault ==
    response.op \in {"create", "update", "set_default"} =>
        \A uid \in UsersWithConfigs : Cardinality(DefaultsOf(uid)) = 1

\* The handler that answered in this step read or wrote state of the
\* conversation its request names: it changed a table, listed the messages,
\* or it (or its agent) called the memory manager with a run_id.
AccessedConversation ==
    \/ <<owned, message_rows, next_row_id, memory_rows>>' #
          <<owned, message_rows, next_row_id, memory_rows>>
    \/ last_answer'.run_id # None
    \/ last_answer'.op = "get_messages" /\ last_answer'.status = "ok"

\* C31: a request that names a conversation id reads or writes state for
\* that conversation only if the conversation belongs to the calling user,
\* and a request whose ownership check failed is answered NOT_FOUND, changes
\* no table and makes no memory manager call.
C31_CheckedBeforeAccess ==
    [][(last_answer' # NoAnswer /\ last_answer'.conversation_id # 0) =>
          /\ AccessedConversation =>
                verify_resource_ownership(owned,
                                          last_answer'.conversation_id,
                                          last_answer'.user_id)
          /\ last_answer'.check = "failed" =>
                /\ last_answer'.status = "not_found"
                /\ ~AccessedConversation]_vars

\* Every assistant row of `messages` that is still stored after the step
\* is stored as it was.
AssistantRowsKept ==
    \A i \in DOMAIN message_rows, j \in DOMAIN message_rows' :
       (message_rows[i].role = "assistant" /\
        message_rows'[j].id = message_rows[i].id) =>
          message_rows'[j] = message_rows[i]

\* The send pipelines only append rows.
SendOnlyAppends ==
    last_answer'.op \in {"send_message", "send_message_stream"} =>
       /\ Len(message_rows') >= Len(message_rows)
       /\ SubSeq(message_rows', 1, Len(message_rows)) = message_rows

\* The request answered in this step is an edit request on a stored message
\* whose role is not user.
EditOfNonUserMessage ==
    /\ last_answer'.op = "update_message"
    /\ \E i \in DOMAIN message_rows :
          /\ message_rows[i].id = last_answer'.message_id
          /\ message_rows[i].role # "user"

\* The edit request passed the ownership check and the validation of its
\* content, and names the message through the conversation that holds it.
EditReachesMessage ==
    /\ last_answer'.check = "passed"
    /\ last_answer'.status # "validation_error"
    /\ FindMessage(message_rows, last_answer'.message_id,
                   last_answer'.conversation_id) # <<>>

\* C32 as stated: an assistant message keeps its content, the send
\* pipelines never update a stored row, and every edit request on a message
\* whose role is not user is answered FORBIDDEN.
C32_EditAlwaysForbidden ==
    [][/\ AssistantRowsKept
       /\ SendOnlyAppends
       /\ EditOfNonUserMessage => last_answer'.status = "forbidden"]_vars

\* C32: an assistant message, once stored, keeps its content: the send
\* pipelines only append rows, no edit request changes a message whose role
\* is not user, and such an edit request is answered FORBIDDEN when it comes
\* from the owner of the conversation that holds the message and carries a
\* valid content (otherwise it is answered NOT_FOUND or VALIDATION_ERROR).
C32_AssistantMessageKept ==
    [][/\ AssistantRowsKept
       /\ SendOnlyAppends
       /\ EditOfNonUserMessage =>
             /\ last_answer'.status # "ok"
             /\ EditReachesMessage => last_answer'.status = "forbidden"
             /\ ~EditReachesMessage =>
                   last_answer'.status \in {"not_found", "validation_error"}]_vars

\* The owner's edit of an assistant message was answered FORBIDDEN and the
\* message is stored with the content of the reply.
C32_Witness ==
    /\ last_answer.op = "update_message"
    /\ last_answer.status = "forbidden"
    /\ \E i \in DOMAIN message_rows :
          /\ message_rows[i].id = last_answer.message_id
          /\ message_rows[i].role = "assistant"
          /\ message_rows[i].content = ReplyContent

\* No tool execution submitted for the last LLM response is still running.
NoToolRunning == \A i \in DOMAIN futures : futures[i] # "running"

\* C33: chat_agent leaves the join of a turn, starts an LLM call, or
\* returns, only when no tool execution dispatched for the last LLM response
\* is still running.
C33_JoinedBeforeNextTurn ==
    [][(\/ pc = "join" /\ pc' # "join"
        \/ llm_calls' # llm_calls
        \/ pc # "done" /\ pc' = "done") => NoToolRunning]_vars

\* Two tool executions finished in the reverse order of their submission
\* and both results are joined: the turn is about to end.
C33_Witness ==
    /\ pc = "join"
    /\ Len(futures) = 2
    /\ completed = <<2, 1>>
    /\ joined = 2
    /\ llm_calls >= 2

\* The strings chat_agent may return.
Returns == Contents \cup {ErrorReply, TimeoutReply, NoModelReply}

\* C34: every chat_agent invocation terminates, and it ends by returning
\* the LLM's final content, the error string, the timeout string or the
\* configure-model string.
C34_Terminates == <>(pc = "done" /\ result \in Returns)

\* The loop ran max_turns turns with tool calls and returned the timeout
\* string.
C34_Witness ==
    /\ pc = "done"
    /\ result = TimeoutReply
    /\ current_turn = max_turns
    /\ llm_calls = max_turns

\* The ids of the vector candidates the searches of this call returned.
VectorCandidateIds ==
    {candidates[i].id : i \in DOMAIN candidates} \ {GraphOnly}

\* In this step the tool passed the next id of ids_to_delete to the
\* manager's delete_memory: the delete went through, or it raised.
DeleteCalled ==
    /\ dpc = "delete"
    /\ del_idx < Len(ids_to_delete)
    /\ \/ Len(deleted_contents') > Len(deleted_contents)
       \/ store' # store
       \/ dpc' = "done" /\ tool_result' = ToolErrorResult

\* C35: every id the delete_memory tool passes to the manager's delete is
\* the id of a vector candidate gathered by its own local or global search,
\* and only records with such an id leave the store.
C35_DeletesOnlyCandidates ==
    [][/\ DeleteCalled => ids_to_delete[del_idx + 1] \in VectorCandidateIds
       /\ \A r \in store \ store' : r.id \in VectorCandidateIds]_vars

\* The reviewer named an invented id and the id of a candidate; the loop is
\* through, one record was deleted and the others are still stored.
C35_Witness ==
    /\ dpc = "delete"
    /\ ids_to_delete = <<"no-such-id", "v1">>
    /\ del_idx = 2
    /\ Len(deleted_contents) = 1
    /\ \A r \in store : r.id # "v1"
    /\ \E r \in store : r.id = "v2"

\* C36: a delete_memory run that entered the graph reset returns the text
\* that reports the graph as synchronized only if the reset statement was
\* inserted into the global namespace and, for a truthy conversation id,
\* into the local namespace.
C36_SynchronizedOnlyAfterResets ==
    (dpc = "done" /\ tool_result = SuccessResult /\ reset_started) =>
        /\ GlobalResets # {}
        /\ conversation_id # 0 => LocalResets # {}

\* Thread t ran the recovery of add_memory: its first add raised a 404.
Recovered(t) ==
    thr[t].op = "add" /\ Len(thr[t].tries) >= 1 /\ thr[t].tries[1] = "404"

\* C37: the eviction step of the recovery never makes an add_memory call
\* fail, also when two calls with one fingerprint recover at the same time;
\* a recovering call makes one more add attempt, and when both calls have
\* returned the cache holds an adapter for the fingerprint.
C37_EvictionSafe ==
    /\ [][\A t \in Threads :
            (thr[t].pc = "evict" /\ thr'[t].pc = "idle")
            => thr'[t].outcome # "raised"]_vars
    /\ [](\A t \in Threads :
            (Recovered(t) /\ AddDone(t) /\ thr[t].outcome = "ok")
            => thr[t].tries = <<"404", "ok">>)
    /\ []((\A t \in Threads :
             Recovered(t) /\ AddDone(t) /\ thr[t].outcome = "ok")
          => \A t \in Threads : clients[thr[t].config_hash] # 0)

\* The entry of this turn's user message in a message list.
UserEntry == [role |-> "user", content |-> UserContent]

\* C38: the message list handed to the LLM holds this turn's user message
\* exactly once, as its last entry (so the history part does not hold it),
\* also when another send inserted its user message before the history
\* query.
C38_UserMessageOnce ==
    spc = "agent" =>
        LET list == MessageList(history, UserContent)
        IN  /\ list[Len(list)] = UserEntry
            /\ Cardinality({k \in DOMAIN list : list[k] = UserEntry}) = 1

\* C39: for a tool name that is none of the five advertised names, every
\* tool execution returns the unknown-tool string: none returns the string
\* of an add or a search, or the error of a memory operation or of an
\* argument the operation reads.
C39_UnknownToolNoOperation ==
    tool_name \notin AdvertisedTools =>
        \A i \in DOMAIN futures :
           futures[i] \in {"running", UnknownToolResult}

=============================================================================
